---- MODULE Spec2Model ----
(***************************************************************************)
(* Model of astrbot_plugin_r_parser:                                       *)
(*   - EmojiLikeArbiter (core/limit/arbiter.py): several bot instances,    *)
(*     each with its own arbiter object, racing through message reactions. *)
(*   - Downloader.streamd (core/download.py): concurrent streaming fetches *)
(*     into a shared cache directory.                                      *)
(*   - Downloader.download_av_and_merge (core/download.py) with merge_av   *)
(*     and exec_ffmpeg_cmd (core/utils.py): two fetch tasks gathered,      *)
(*     then the ffmpeg process.                                            *)
(*   - LimitedSizeDict (core/utils.py), the Downloader's info_cache.        *)
(*   - the yt-dlp downloads of the Downloader (core/download.py).          *)
(*   - auto_task (core/download.py): a download as an asyncio Task and its *)
(*     awaiters.                                                           *)
(*   - LinkDebouncer and ParserPlugin.on_message (main.py).                *)
(***************************************************************************)
EXTENDS Integers, Sequences, FiniteSets, TLC

(* ------------------------------ bounds --------------------------------- *)
\* emoji ids are drawn from 1..MaxEmoji (random.randint(1, 433) in the code)
MaxEmoji == 3
\* compete() calls made in all, by any instance (they may overlap)
MaxCalls == 2
\* message ids
MaxMsg == 1
\* reactions posted by a human member of the group
MaxUserLikes == 1

\* concurrent streamd() tasks
MaxFetch == 2
\* target paths in the cache directory
MaxPath == 2
\* 1 MiB chunks in the body of the resource (iter_chunked(1024 * 1024))
BodyChunks == 2
\* config["source_max_size"], in MB
MaxSizeMB == 2

\* concurrent download_av_and_merge() tasks
MaxMerge == 2

\* records one run of notices leaves in all record lists together
MaxRecords == 2
\* items in the "likes" list of one notice
MaxItems == 3
\* (keyword, pattern) pairs of the enabled parsers
MaxPairs == 3
\* characters of a message text
MaxText == 3
\* download requests whose target paths are compared
MaxReq == 2
\* source urls that share one digest
MaxSrc == 2
\* inbound messages handled by one plugin instance
MaxHandler == 2
\* the clock runs from 0 to MaxTime
MaxTime == 7
\* calls of LinkDebouncer.hit
MaxHits == 3
\* downloads wrapped by auto_task
MaxLazy == 2
\* awaits of the result of such a download
MaxAccess == 2
\* concurrent yt-dlp download tasks
MaxYt == 2
\* keys of the info_cache (source urls)
MaxUrl == 3
\* capacity of the info_cache (max_size)
CacheSize == 2

\* the bot instances (their account ids); each owns one EmojiLikeArbiter
Bots == {1, 2}
\* the account id of a human group member who may also react
UserId == 9
Calls == 1..MaxCalls
Msgs == 1..MaxMsg
Emojis == 1..MaxEmoji
\* self._self_emoji holds no entry for the id
NoEmoji == 0

VARIABLES
    like_cache,   \* [Bots -> [Msgs -> Seq(record)]]   self._like_cache
    self_emoji,   \* [Bots -> [Msgs -> Emojis \cup {NoEmoji}]]  self._self_emoji
    locks,        \* [Bots -> SUBSET Msgs]             self._locks
    pc,           \* [Calls -> position of that compete() call]
    call_bot,     \* [Calls -> Bots]   the instance the call runs in (self_id)
    call_msg,     \* [Calls -> Msgs]   argument message_id of the call
    call_emoji,   \* [Calls -> Emojis \cup {NoEmoji}]   local emoji_id
    result,       \* [Calls -> BOOLEAN]    value returned by compete
    reactions,    \* reactions the platform has accepted (the side channel)
    inflight,     \* [Bots -> set of notices not yet handed to record_like]
    user_likes    \* number of reactions the human member has posted

arbVars == <<like_cache, self_emoji, locks, pc, call_bot, call_msg, call_emoji,
             result, reactions, inflight, user_likes>>

VARIABLES
    fs,           \* [Paths -> file linked at the path: exists, chunks written]
    fpc,          \* [Fetches -> position of that streamd() task]
    fpath,        \* [Fetches -> Paths]   file_path of the task
    attempt,      \* [Fetches -> 0..max_retries - 1]   loop variable attempt
    fpos,         \* [Fetches -> chunks the task has written through its handle]
    attached,     \* [Fetches -> BOOLEAN]  the open handle's file is still linked
    slept,        \* [Fetches -> Seq(Nat)]  the call's backoff sleeps, in 0.1 s
    ferr          \* [Fetches -> exception being handled or raised]

dlVars == <<fs, fpc, fpath, attempt, fpos, attached, ferr, slept>>

VARIABLES
    av_pc,        \* [Merges -> position of that download_av_and_merge() task]
    leg,          \* [Merges -> [Legs -> state of the download task]]
    finished,     \* [Merges -> legs in the order gather saw them finish]
    avfile,       \* [Merges -> [v, a, out -> BOOLEAN]]  the file exists
    return_code,  \* [Merges -> exit of the ffmpeg process]
    av_err        \* [Merges -> exception the task has raised]

avVars == <<av_pc, leg, finished, avfile, return_code, av_err>>

VARIABLES
    info_cache,   \* Downloader.info_cache: the items in the order of the
                  \* OrderedDict, each [key, value]
    cache_ops     \* the operations applied to info_cache so far, in order

cacheVars == <<info_cache, cache_ops>>

VARIABLES
    yt_pc,        \* [YtTasks -> position of that yt-dlp download task]
    yt_kind,      \* [YtTasks -> "video" | "audio"]   which method runs
    yt_url,       \* [YtTasks -> Urls]   argument url
    yt_info,      \* [YtTasks -> duration of the local info, once it is there]
    yt_checked,   \* [YtTasks -> BOOLEAN]  the duration test has been made
    yt_dl,        \* [YtTasks -> BOOLEAN]  ydl.download has been called
    yt_err,       \* [YtTasks -> exception the task has raised]
    yt_files,     \* [kind -> [Urls -> BOOLEAN]]  the output file exists
    media_dur     \* [Urls -> duration of the media behind the url, once known]

ytVars == <<yt_pc, yt_kind, yt_url, yt_info, yt_checked, yt_dl, yt_err,
            yt_files, media_dur>>

VARIABLES
    lz_task,      \* [Lazies -> state of the Task auto_task has created]
    lz_runs,      \* [Lazies -> times the wrapped coroutine has been started]
    lz_result,    \* [Lazies -> result or exception the Task holds]
    acc_pc,       \* [Accesses -> position of that access to the result]
    acc_of,       \* [Accesses -> Lazies]  the download accessed
    acc_val       \* [Accesses -> what the access returned or raised]

lzVars == <<lz_task, lz_runs, lz_result, acc_pc, acc_of, acc_val>>

VARIABLES
    deb_last,     \* [Sessions \X Links -> lastSeen of the entry, or NoEntry]
    now,          \* the clock
    hit_log       \* the calls of hit so far: [key, at, res]

debVars == <<deb_last, now, hit_log>>

VARIABLES
    m_pc,         \* [Handlers -> position of that on_message() call]
    m_in,         \* [Handlers -> the inbound event]
    m_win,        \* [Handlers -> "none" | "true" | "false"]  is_win
    m_posted,     \* [Handlers -> BOOLEAN]  compete has posted a reaction
    m_hit,        \* [Handlers -> "none" | "passed" | "suppressed"]  hit()
    m_parsed,     \* [Handlers -> BOOLEAN]  parse() has been called
    m_sent        \* [Handlers -> BOOLEAN]  event.send() has been called

VARIABLES
    rec_raw,      \* the raw_message record_like was last called with
    rec_bot       \* the instance whose record_like was called

recVars == <<rec_raw, rec_bot>>

VARIABLES
    key_pattern_list,  \* self.key_pattern_list
    d_pc,              \* "new" before _register_parser has run, then "ready"
    d_text,            \* the text of the last message
    d_keyword,         \* keyword after the loop (<<>> is the empty string)
    d_searched,        \* place in the list of the pair that gave `searched`,
                       \* 0 for None
    d_parsing          \* the handler went past step 4 with that message

dispVars == <<key_pattern_list, d_pc, d_text, d_keyword, d_searched, d_parsing>>

VARIABLES
    requests      \* Seq of [url, name, ytdlp, path]: the download_video calls
                  \* made and the file path each one works on

nameVars == <<requests>>

msgVars == <<m_pc, m_in, m_win, m_posted, m_hit, m_parsed, m_sent>>

vars == <<arbVars, dlVars, avVars, cacheVars, ytVars, lzVars, debVars, msgVars, recVars, dispVars, nameVars>>

(* --------------------------- EmojiLikeArbiter --------------------------- *)

\* one EmojiLikeRecord (the ts field is written but never read)
EmojiLikeRecord(user_id, emoji_id) == [user_id |-> user_id, emoji_id |-> emoji_id]

\* a group_msg_emoji_like notice as the platform delivers it
Notice(message_id, user_id, emoji_id) ==
    [message_id |-> message_id, user_id |-> user_id, emoji_id |-> emoji_id]

\* a variant of MinRecord that takes the last of the records sharing the
\* least emoji_id
MinRecord_LastTie(records) ==
    LET k == CHOOSE i \in DOMAIN records :
                 /\ \A j \in DOMAIN records :
                        records[i].emoji_id <= records[j].emoji_id
                 /\ \A j \in DOMAIN records :
                        records[j].emoji_id = records[i].emoji_id => j <= i
    IN records[k]

\* a variant of MinRecord that takes the greatest emoji_id
MinRecord_Max(records) ==
    LET k == CHOOSE i \in DOMAIN records :
                 \A j \in DOMAIN records : records[j].emoji_id <= records[i].emoji_id
    IN records[k]

\* min(records, key=lambda r: r["emoji_id"]): the first record, in list
\* order, whose emoji_id is the least
MinRecord(records) ==
    LET least == CHOOSE e \in {records[k].emoji_id : k \in DOMAIN records} :
                     \A k \in DOMAIN records : e <= records[k].emoji_id
        first == CHOOSE k \in DOMAIN records :
                     /\ records[k].emoji_id = least
                     /\ \A j \in DOMAIN records :
                            records[j].emoji_id = least => k <= j
    IN records[first]

ArbInit ==
    /\ like_cache = [b \in Bots |-> [m \in Msgs |-> <<>>]]
    /\ self_emoji = [b \in Bots |-> [m \in Msgs |-> NoEmoji]]
    /\ locks = [b \in Bots |-> {}]
    /\ pc = [c \in Calls |-> "idle"]
    /\ call_bot = [c \in Calls |-> 1]
    /\ call_msg = [c \in Calls |-> 1]
    /\ call_emoji = [c \in Calls |-> NoEmoji]
    /\ result = [c \in Calls |-> FALSE]
    /\ reactions = {}
    /\ inflight = [b \in Bots |-> {}]
    /\ user_likes = 0

\* a variant of CompeteBranch that skips the test of line 85
CompeteBranch_NoLockCheck(lk, records, message_id) ==
    IF records # <<>> THEN "ret_concede" ELSE "posting"

\* a variant of CompeteBranch that skips the test of line 89
CompeteBranch_NoConcede(lk, records, message_id) ==
    IF message_id \in lk THEN "ret_locked" ELSE "posting"

\* compete(), lines 84-90: which way the call goes on entry
CompeteBranch(lk, records, message_id) ==
    IF message_id \in lk THEN "ret_locked"
    ELSE IF records # <<>> THEN "ret_concede"
    ELSE "posting"

\* compete(), lines 84-96: the two early returns, else the draw of line 92
\* and the suspension in bot.set_msg_emoji_like
CompeteStart(c, b, m) ==
    /\ pc[c] = "idle"
    \* call slots are taken in order (the slots are interchangeable)
    /\ c > 1 => pc[c - 1] # "idle"
    /\ call_bot' = [call_bot EXCEPT ![c] = b]
    /\ call_msg' = [call_msg EXCEPT ![c] = m]
    /\ pc' = [pc EXCEPT ![c] = CompeteBranch(locks[b], like_cache[b][m], m)]
    /\ IF CompeteBranch(locks[b], like_cache[b][m], m) = "posting"
       THEN \E e \in Emojis : call_emoji' = [call_emoji EXCEPT ![c] = e]
       ELSE UNCHANGED call_emoji
    /\ result' = [result EXCEPT ![c] = FALSE]
    /\ UNCHANGED <<like_cache, self_emoji, locks, reactions, inflight, user_likes>>
    /\ UNCHANGED <<dlVars, avVars, cacheVars, ytVars, lzVars, debVars, msgVars, recVars, dispVars, nameVars>>

\* compete(), lines 96-115: the post succeeded; the platform shows the
\* reaction and notifies the other instances; the caller records itself and
\* goes to sleep for wait_sec
PostOk(c) ==
    /\ pc[c] = "posting"
    /\ LET b == call_bot[c]
           m == call_msg[c]
           e == call_emoji[c]
       IN /\ reactions' = reactions \cup {Notice(m, b, e)}
          /\ inflight' = [o \in Bots |->
                            IF o = b THEN inflight[o]
                            ELSE inflight[o] \cup {Notice(m, b, e)}]
          /\ self_emoji' = [self_emoji EXCEPT ![b][m] = e]
          /\ like_cache' = [like_cache EXCEPT
                              ![b][m] = Append(@, EmojiLikeRecord(b, e))]
    /\ pc' = [pc EXCEPT ![c] = "sleeping"]
    /\ UNCHANGED <<locks, call_bot, call_msg, call_emoji, result, user_likes>>
    /\ UNCHANGED <<dlVars, avVars, cacheVars, ytVars, lzVars, debVars, msgVars, recVars, dispVars, nameVars>>

\* a variant of PostFail that records the caller although the post failed
PostFail_Records(c) ==
    /\ pc[c] = "posting"
    /\ pc' = [pc EXCEPT ![c] = "ret_postfail"]
    /\ result' = [result EXCEPT ![c] = FALSE]
    /\ call_emoji' = [call_emoji EXCEPT ![c] = NoEmoji]
    /\ self_emoji' = [self_emoji EXCEPT ![call_bot[c]][call_msg[c]] = call_emoji[c]]
    /\ like_cache' = [like_cache EXCEPT ![call_bot[c]][call_msg[c]] =
                        Append(@, EmojiLikeRecord(call_bot[c], call_emoji[c]))]
    /\ UNCHANGED <<locks, call_bot, call_msg, reactions, inflight, user_likes>>
    /\ UNCHANGED <<dlVars, avVars, cacheVars, ytVars, lzVars, debVars, msgVars, recVars, dispVars, nameVars>>

\* compete(), lines 101-102: set_msg_emoji_like raised
PostFail(c) ==
    /\ pc[c] = "posting"
    /\ pc' = [pc EXCEPT ![c] = "ret_postfail"]
    /\ result' = [result EXCEPT ![c] = FALSE]
    /\ call_emoji' = [call_emoji EXCEPT ![c] = NoEmoji]
    /\ UNCHANGED <<like_cache, self_emoji, locks, call_bot, call_msg,
                   reactions, inflight, user_likes>>
    /\ UNCHANGED <<dlVars, avVars, cacheVars, ytVars, lzVars, debVars, msgVars, recVars, dispVars, nameVars>>

\* a variant of DecideResult that skips the test of line 124
DecideResult_NoLockCheck(lk, records, my_emoji, message_id, self_id) ==
    IF records = <<>> \/ my_emoji = NoEmoji THEN FALSE
    ELSE MinRecord(records).user_id = self_id

\* the value _decide returns (lines 124-142)
DecideResult(lk, records, my_emoji, message_id, self_id) ==
    IF message_id \in lk THEN FALSE
    ELSE IF records = <<>> \/ my_emoji = NoEmoji THEN FALSE
    ELSE MinRecord(records).user_id = self_id

\* the _locks set _decide leaves (line 140)
DecideLocks(lk, records, my_emoji, message_id) ==
    IF message_id \in lk THEN lk
    ELSE IF records = <<>> \/ my_emoji = NoEmoji THEN lk
    ELSE lk \cup {message_id}

\* whether _decide reaches its try/finally (lines 130-146): the return of
\* line 125 lies before the try
DecidePurges(lk, message_id) == message_id \notin lk

\* compete() line 117 with _decide, lines 120-146: the sleep is over
Decide(c) ==
    /\ pc[c] = "sleeping"
    /\ LET b == call_bot[c]
           m == call_msg[c]
           records == like_cache[b][m]
           my_emoji == self_emoji[b][m]
       IN /\ result' = [result EXCEPT
                          ![c] = DecideResult(locks[b], records, my_emoji, m, b)]
          /\ locks' = [locks EXCEPT
                          ![b] = DecideLocks(locks[b], records, my_emoji, m)]
          /\ IF DecidePurges(locks[b], m)
             THEN /\ like_cache' = [like_cache EXCEPT ![b][m] = <<>>]
                  /\ self_emoji' = [self_emoji EXCEPT ![b][m] = NoEmoji]
             ELSE UNCHANGED <<like_cache, self_emoji>>
    /\ pc' = [pc EXCEPT ![c] = "ret_decide"]
    /\ UNCHANGED <<call_bot, call_msg, call_emoji, reactions, inflight, user_likes>>
    /\ UNCHANGED <<dlVars, avVars, cacheVars, ytVars, lzVars, debVars, msgVars, recVars, dispVars, nameVars>>

\* the list record_like leaves for the notice's message id (lines 55-67)
RecordLikeList(records, n) ==
    Append(records, EmojiLikeRecord(n.user_id, n.emoji_id))

\* record_like(), lines 40-70, on a well-formed notice
RecordLike(b, n) ==
    /\ n \in inflight[b]
    /\ inflight' = [inflight EXCEPT ![b] = @ \ {n}]
    /\ like_cache' = [like_cache EXCEPT
                        ![b][n.message_id] = RecordLikeList(@, n)]
    /\ UNCHANGED <<self_emoji, locks, pc, call_bot, call_msg, call_emoji,
                   result, reactions, user_likes>>
    /\ UNCHANGED <<dlVars, avVars, cacheVars, ytVars, lzVars, debVars, msgVars, recVars, dispVars, nameVars>>

\* a human member reacts to the message; every instance is notified
UserLike(m, e) ==
    /\ user_likes < MaxUserLikes
    /\ user_likes' = user_likes + 1
    /\ reactions' = reactions \cup {Notice(m, UserId, e)}
    /\ inflight' = [o \in Bots |-> inflight[o] \cup {Notice(m, UserId, e)}]
    /\ UNCHANGED <<like_cache, self_emoji, locks, pc, call_bot, call_msg,
                   call_emoji, result>>
    /\ UNCHANGED <<dlVars, avVars, cacheVars, ytVars, lzVars, debVars, msgVars, recVars, dispVars, nameVars>>

ArbNext ==
    \/ \E c \in Calls, b \in Bots, m \in Msgs : CompeteStart(c, b, m)
    \/ \E c \in Calls : PostOk(c)
    \/ \E c \in Calls : PostFail(c)
    \/ \E c \in Calls : Decide(c)
    \/ \E b \in Bots : \E n \in inflight[b] : RecordLike(b, n)
    \/ \E m \in Msgs, e \in Emojis : UserLike(m, e)

(* ---------------------- EmojiLikeArbiter.record_like -------------------- *)

\* a value of a raw_message field: an int, a string of digits, anything else
\* (a word, None, a list), or no such key
IntValue(n) == [kind |-> "int", num |-> n]
StrValue(n) == [kind |-> "str", num |-> n]
Junk == [kind |-> "junk", num |-> 0]
Missing == [kind |-> "missing", num |-> 0]

\* int(v) / float(v) of lines 48-50 and 57 returns a number (v.num: int("12")
\* is 12); otherwise KeyError, TypeError or ValueError is raised
Parses(v) == v.kind \in {"int", "str"}

\* the items a "likes" list may hold: the emoji_id key holds a value or is
\* missing
Items == {[emoji_id |-> v] : v \in {IntValue(e) : e \in Emojis} \cup {Junk, Missing}}

\* the header fields of a well-formed notice
GoodHeader ==
    [notice_type |-> "group_msg_emoji_like", message_id |-> IntValue(1),
     user_id |-> IntValue(UserId), time |-> IntValue(0)]

\* well-formed headers: the message id is an int or a string of digits
GoodHeaders ==
    {[GoodHeader EXCEPT !.message_id = v] :
        v \in {IntValue(m) : m \in Msgs} \cup {StrValue(m) : m \in Msgs}}

\* headers with one defect
BadHeaders ==
    {[GoodHeader EXCEPT !.message_id = v] : v \in {Junk, Missing}}
    \cup {[GoodHeader EXCEPT !.user_id = v] : v \in {Junk, Missing}}
    \cup {[GoodHeader EXCEPT !.time = v] : v \in {Junk, Missing}}
    \cup {[GoodHeader EXCEPT !.notice_type = "notify"]}

\* raw messages: has_likes tells whether the "likes" key is there; the
\* messages with a defective header all carry the same one-item list
RawMessages ==
    {[head |-> h, has_likes |-> TRUE, likes |-> l] :
        h \in GoodHeaders, l \in UNION {[1..n -> Items] : n \in 0..MaxItems}}
    \cup {[head |-> h, has_likes |-> FALSE, likes |-> <<>>] : h \in GoodHeaders}
    \cup {[head |-> h, has_likes |-> TRUE,
           likes |-> <<[emoji_id |-> IntValue(1)]>>] : h \in BadHeaders}

RecInit ==
    /\ rec_bot = 1
    /\ rec_raw = [head |-> [GoodHeader EXCEPT !.notice_type = "notify"],
                  has_likes |-> FALSE, likes |-> <<>>]

\* a variant of AppendLikes that gives up at the first item it cannot parse
RECURSIVE AppendLikes_StopAtBad(_, _, _)
AppendLikes_StopAtBad(records, user_id, likes) ==
    IF likes = <<>> THEN records
    ELSE IF ~Parses(Head(likes).emoji_id) THEN records
    ELSE AppendLikes_StopAtBad(
             Append(records,
                    EmojiLikeRecord(user_id, Head(likes).emoji_id.num)),
             user_id, Tail(likes))

\* record_like(), lines 55-67: the loop over the items; an item whose
\* emoji_id does not parse is passed over by `continue`
RECURSIVE AppendLikes(_, _, _)
AppendLikes(records, user_id, likes) ==
    IF likes = <<>> THEN records
    ELSE IF ~Parses(Head(likes).emoji_id)
    THEN AppendLikes(records, user_id, Tail(likes))
    ELSE AppendLikes(
             Append(records,
                    EmojiLikeRecord(user_id, Head(likes).emoji_id.num)),
             user_id, Tail(likes))

\* record_like(), lines 44-53: the notice type is tested and the header
\* fields are parsed; any failure returns
HeaderAccepted(raw) ==
    /\ raw.head.notice_type = "group_msg_emoji_like"
    /\ Parses(raw.head.message_id)
    /\ Parses(raw.head.user_id)
    /\ Parses(raw.head.time)

\* line 51: raw_message.get("likes") or []
LikesOf(raw) == IF raw.has_likes THEN raw.likes ELSE <<>>

\* the _like_cache record_like leaves
RecordLikeCache(cache, raw) ==
    IF ~HeaderAccepted(raw) THEN cache
    ELSE [cache EXCEPT ![raw.head.message_id.num] =
             AppendLikes(@, raw.head.user_id.num, LikesOf(raw))]

RECURSIVE SumLen(_, _)
SumLen(cache, ms) ==
    IF ms = {} THEN 0
    ELSE LET m == CHOOSE x \in ms : TRUE
         IN Len(cache[m]) + SumLen(cache, ms \ {m})

\* the records all lists of all instances hold together
TotalRecords(caches) == SumLen(caches[1], Msgs) + SumLen(caches[2], Msgs)

\* record_like(), lines 40-70, called by instance b with any raw message
RecordLikeRaw(b, raw) ==
    /\ rec_raw' = raw
    /\ rec_bot' = b
    /\ like_cache' = [like_cache EXCEPT ![b] = RecordLikeCache(@, raw)]
    /\ TotalRecords(like_cache') <= MaxRecords
    /\ UNCHANGED <<self_emoji, locks, pc, call_bot, call_msg, call_emoji,
                   result, reactions, inflight, user_likes>>
    /\ UNCHANGED <<dlVars, avVars, cacheVars, ytVars, lzVars, debVars, msgVars, dispVars, nameVars>>

RecNext == \E b \in Bots, raw \in RawMessages : RecordLikeRaw(b, raw)

(* ------------------- ParserPlugin: keyword dispatch --------------------- *)

\* texts, keywords and patterns are strings over two characters, written as
\* sequences; a pattern is a literal, so pat.search(text) finds it as a
\* substring
Texts == UNION {[1..n -> {"a", "b"}] : n \in 0..MaxText}

\* the _key_patterns entries of the enabled parser classes: (keyword, pattern)
PairPool ==
    {[kw |-> <<"b">>, pat |-> <<"b">>],
     [kw |-> <<"a", "b">>, pat |-> <<"a", "b">>],
     [kw |-> <<"b", "a">>, pat |-> <<"b", "a", "a">>],
     [kw |-> <<"a">>, pat |-> <<"a", "b">>],
     [kw |-> <<"a", "b">>, pat |-> <<"b", "b">>]}

\* the lists the comprehension of lines 148-152 may give: distinct pairs in
\* the order of the classes and of their entries
PairLists ==
    {l \in UNION {[1..n -> PairPool] : n \in 0..MaxPairs} :
        \A i, j \in DOMAIN l : i # j => l[i] # l[j]}

\* `w in text` for strings, and re.search of a literal
Occurs(w, text) ==
    \E i \in 1..(Len(text) - Len(w) + 1) : SubSeq(text, i, i + Len(w) - 1) = w

DispInit ==
    /\ key_pattern_list = <<>>
    /\ d_pc = "new"
    /\ d_text = <<>>
    /\ d_keyword = <<>>
    /\ d_searched = 0
    /\ d_parsing = FALSE

\* a variant of SortKey that puts short keywords first
SortKey_Ascending(pair) == Len(pair.kw)

\* the sort key of line 154: -len(x[0])
SortKey(pair) == 0 - Len(pair.kw)

\* list.sort inserts in key order and is stable: a pair goes behind every
\* pair whose key is not greater
RECURSIVE InsertByKey(_, _)
InsertByKey(sorted, pair) ==
    IF sorted = <<>> THEN <<pair>>
    ELSE IF SortKey(Head(sorted)) <= SortKey(pair)
    THEN <<Head(sorted)>> \o InsertByKey(Tail(sorted), pair)
    ELSE <<pair>> \o sorted

\* patterns.sort(key=lambda x: -len(x[0])), line 154
RECURSIVE SortPatterns(_)
SortPatterns(patterns) ==
    IF patterns = <<>> THEN <<>>
    ELSE InsertByKey(SortPatterns(SubSeq(patterns, 1, Len(patterns) - 1)),
                     patterns[Len(patterns)])

\* _register_parser(), lines 147-157
RegisterParser(patterns) ==
    /\ d_pc = "new"
    /\ d_pc' = "ready"
    /\ key_pattern_list' = SortPatterns(patterns)
    /\ UNCHANGED <<d_text, d_keyword, d_searched, d_parsing>>
    /\ UNCHANGED <<arbVars, dlVars, avVars, cacheVars, ytVars, lzVars, debVars,
                   msgVars, recVars, nameVars>>

\* on_message(), lines 320-325: the loop from place i on; gives the place of
\* the pair at which it breaks, 0 if it runs to the end
RECURSIVE SearchFrom(_, _, _)
SearchFrom(list, i, text) ==
    IF i > Len(list) THEN 0
    ELSE IF ~Occurs(list[i].kw, text) THEN SearchFrom(list, i + 1, text)
    ELSE IF Occurs(list[i].pat, text) THEN i
    ELSE SearchFrom(list, i + 1, text)

\* on_message(), lines 309-330, for a message that is no command: the loop
\* over key_pattern_list and the return of step 4
DispatchText(text) ==
    /\ d_pc = "ready"
    /\ d_text' = text
    /\ LET i == SearchFrom(key_pattern_list, 1, text)
       IN /\ d_searched' = i
          /\ d_keyword' = IF i = 0 THEN <<>> ELSE key_pattern_list[i].kw
          /\ d_parsing' = (i # 0)
    /\ UNCHANGED <<key_pattern_list, d_pc>>
    /\ UNCHANGED <<arbVars, dlVars, avVars, cacheVars, ytVars, lzVars, debVars,
                   msgVars, recVars, nameVars>>

DispNext ==
    \/ \E patterns \in PairLists : RegisterParser(patterns)
    \/ \E text \in Texts : DispatchText(text)

(* ------------------------- target file names ---------------------------- *)

\* a source url: digest is the first 16 hex digits of the md5 of the url
\* string (a function of the url, many urls to one value), src tells apart
\* the urls of one digest, suffix is the suffix of the url's path ("" if it
\* has none)
SrcUrls ==
    [src : 1..MaxSrc, digest : {"d41d8cd98f00b204", "900150983cd24fb0"},
     suffix : {"", ".webm"}]

\* hashlib.md5(url.encode()).hexdigest()[:16], utils.py line 120
UrlHash(url) == url.digest

\* a file name is the sequence of its parts: what stands before the first
\* dot, then the suffixes
WithSuffix(name, suffix) == IF suffix = "" THEN name ELSE Append(name, suffix)

\* Path(name).stem: the name without its last suffix
Stem(name) == IF Len(name) > 1 THEN SubSeq(name, 1, Len(name) - 1) ELSE name

\* generate_file_name (utils.py lines 106-122)
GenerateFileName(url, default_suffix) ==
    WithSuffix(<<UrlHash(url)>>,
               IF url.suffix # "" THEN url.suffix ELSE default_suffix)

\* no name was passed (None)
NoName == <<>>

\* the video_name values callers pass: a title or an id, with or without
\* suffix (weibo.py 99 and 160, twitter.py 55, douyin.py 303)
ChosenNames == {<<"title">>, <<"title", ".mp4">>}

NameInit == requests = <<>>

\* download_video(), lines 185-189 with streamd() lines 96-98: the target of
\* a direct download
StreamPath(url, video_name) ==
    IF video_name = NoName THEN GenerateFileName(url, ".mp4") ELSE video_name

\* _ytdlp_download_video(), lines 303-311: the stem of the given name, or
\* the url hash with the url's suffix, followed by ".mp4"
YtdlpPath(url, video_name) ==
    IF video_name # NoName THEN WithSuffix(Stem(video_name), ".mp4")
    ELSE WithSuffix(GenerateFileName(url, ""), ".mp4")

\* download_video(), lines 171-189
DownloadVideoPath(url, video_name, use_ytdlp) ==
    IF use_ytdlp THEN YtdlpPath(url, video_name) ELSE StreamPath(url, video_name)

\* a call of download_video
DownloadVideo(url, video_name, use_ytdlp) ==
    /\ Len(requests) < MaxReq
    /\ requests' = Append(requests,
                          [url |-> url, name |-> video_name, ytdlp |-> use_ytdlp,
                           path |-> DownloadVideoPath(url, video_name, use_ytdlp)])
    /\ UNCHANGED <<arbVars, dlVars, avVars, cacheVars, ytVars, lzVars, debVars,
                   msgVars, recVars, dispVars>>

NameNext ==
    \E url \in SrcUrls, n \in ChosenNames \cup {NoName}, y \in BOOLEAN :
        DownloadVideo(url, n, y)

(* -------------------------- Downloader.streamd -------------------------- *)

Fetches == 1..MaxFetch
Paths == 1..MaxPath
\* max_retries (download.py line 109)
MaxRetries == 3
\* the response carries no Content-Length header
NoHeader == -1
\* Content-Length values a server may advertise, in MiB
ContentLengths == {NoHeader, 0, BodyChunks, MaxSizeMB + 1}

Absent == [exists |-> FALSE, chunks |-> {}]

\* the file holds the whole body
FileComplete(file) == file.exists /\ file.chunks = 1..BodyChunks

DlInit ==
    /\ fs = [p \in Paths |-> Absent]
    /\ fpc = [t \in Fetches |-> "idle"]
    /\ fpath = [t \in Fetches |-> 1]
    /\ attempt = [t \in Fetches |-> 0]
    /\ fpos = [t \in Fetches |-> 0]
    /\ attached = [t \in Fetches |-> FALSE]
    /\ ferr = [t \in Fetches |-> "none"]
    /\ slept = [t \in Fetches |-> <<>>]

\* a variant of ExistsBranch without the test of line 100
ExistsBranch_Never(file) == "request"

\* streamd(), lines 100-101: file_path.exists()
ExistsBranch(file) == IF file.exists THEN "ret_exists" ELSE "request"

\* streamd(), lines 96-111: the task starts; returns at once if the file exists
FetchStart(t, p) ==
    /\ fpc[t] = "idle"
    \* task slots are taken in order (the slots are interchangeable)
    /\ t > 1 => fpc[t - 1] # "idle"
    /\ fpath' = [fpath EXCEPT ![t] = p]
    /\ fpc' = [fpc EXCEPT ![t] = ExistsBranch(fs[p])]
    /\ attempt' = [attempt EXCEPT ![t] = 0]
    /\ UNCHANGED <<fs, fpos, attached, ferr>>
    /\ slept' = [slept EXCEPT ![t] = <<>>]
    /\ UNCHANGED <<arbVars, avVars, cacheVars, ytVars, lzVars, debVars, msgVars, recVars, dispVars, nameVars>>

\* a variant of ResponseOutcome without the size test of line 128
ResponseOutcome_NoSizeCheck(status_ok, cl, chunked) ==
    LET content_length == IF cl = NoHeader THEN 0 ELSE cl
    IN IF ~status_ok THEN "ClientError"
       ELSE IF content_length = 0 /\ ~chunked THEN "ZeroSize"
       ELSE "open"

\* a variant of ResponseOutcome without the Transfer-Encoding test of line 124
ResponseOutcome_ZeroAlways(status_ok, cl, chunked) ==
    LET content_length == IF cl = NoHeader THEN 0 ELSE cl
    IN IF ~status_ok THEN "ClientError"
       ELSE IF content_length = 0 THEN "ZeroSize"
       ELSE IF content_length > MaxSizeMB THEN "SizeLimit"
       ELSE "open"

\* streamd(), lines 116-132: what the response headers lead to
ResponseOutcome(status_ok, cl, chunked) ==
    LET content_length == IF cl = NoHeader THEN 0 ELSE cl
    IN IF ~status_ok THEN "ClientError"
       ELSE IF content_length = 0 /\ ~chunked THEN "ZeroSize"
       ELSE IF content_length # 0 /\ content_length > MaxSizeMB THEN "SizeLimit"
       ELSE "open"

\* aiofiles.open(file_path, "wb"), line 135: creates the file or truncates
\* the one linked at the path
OpenWb(file) == [exists |-> TRUE, chunks |-> {}]

\* streamd(), lines 113-135: the response arrives (or the request fails);
\* the headers are checked and the file is opened for writing
Respond(t, status_ok, cl, chunked) ==
    /\ fpc[t] = "request"
    /\ LET out == ResponseOutcome(status_ok, cl, chunked)
       IN IF out = "open"
          THEN /\ fs' = [fs EXCEPT ![fpath[t]] = OpenWb(@)]
               /\ fpc' = [fpc EXCEPT ![t] = "writing"]
               /\ fpos' = [fpos EXCEPT ![t] = 0]
               /\ attached' = [attached EXCEPT ![t] = TRUE]
               /\ UNCHANGED ferr
          ELSE /\ fpc' = [fpc EXCEPT ![t] = "unlinking"]
               /\ ferr' = [ferr EXCEPT ![t] = out]
               /\ UNCHANGED <<fs, fpos, attached>>
    /\ UNCHANGED <<fpath, attempt>>
    /\ UNCHANGED slept
    /\ UNCHANGED <<arbVars, avVars, cacheVars, ytVars, lzVars, debVars, msgVars, recVars, dispVars, nameVars>>

\* streamd(), lines 136-138: one chunk is written at the handle's position;
\* a handle whose file was unlinked writes to a file no path names
WriteChunk(t) ==
    /\ fpc[t] = "writing"
    /\ fpos[t] < BodyChunks
    /\ fpos' = [fpos EXCEPT ![t] = @ + 1]
    /\ IF attached[t]
       THEN fs' = [fs EXCEPT ![fpath[t]].chunks = @ \cup {fpos[t] + 1}]
       ELSE UNCHANGED fs
    /\ UNCHANGED <<fpc, fpath, attempt, attached, ferr>>
    /\ UNCHANGED slept
    /\ UNCHANGED <<arbVars, avVars, cacheVars, ytVars, lzVars, debVars, msgVars, recVars, dispVars, nameVars>>

\* streamd(), lines 136-140: the body ended, the file is closed, the path is
\* returned
FetchDone(t) ==
    /\ fpc[t] = "writing"
    /\ fpos[t] = BodyChunks
    /\ fpc' = [fpc EXCEPT ![t] = "ret_ok"]
    /\ attached' = [attached EXCEPT ![t] = FALSE]
    /\ UNCHANGED <<fs, fpath, attempt, fpos, ferr>>
    /\ UNCHANGED slept
    /\ UNCHANGED <<arbVars, avVars, cacheVars, ytVars, lzVars, debVars, msgVars, recVars, dispVars, nameVars>>

\* streamd(), lines 136-153: the transfer breaks (ClientError or
\* asyncio.TimeoutError) or the write raises something else; the file is
\* closed and the handler starts safe_unlink
StreamFail(t, e) ==
    /\ fpc[t] = "writing"
    /\ fpc' = [fpc EXCEPT ![t] = "unlinking"]
    /\ ferr' = [ferr EXCEPT ![t] = e]
    /\ attached' = [attached EXCEPT ![t] = FALSE]
    /\ UNCHANGED <<fs, fpath, attempt, fpos>>
    /\ UNCHANGED slept
    /\ UNCHANGED <<arbVars, avVars, cacheVars, ytVars, lzVars, debVars, msgVars, recVars, dispVars, nameVars>>

\* safe_unlink (utils.py lines 31-38): path.unlink(missing_ok=True) runs in
\* a worker thread; handles other tasks hold on the file lose their path
SafeUnlink(t) ==
    /\ fpc[t] = "unlinking"
    /\ fs' = [fs EXCEPT ![fpath[t]] = Absent]
    /\ attached' = [u \in Fetches |->
                      IF fpath[u] = fpath[t] THEN FALSE ELSE attached[u]]
    /\ fpc' = [fpc EXCEPT ![t] = "unlinked"]
    /\ UNCHANGED <<fpath, attempt, fpos, ferr>>
    /\ UNCHANGED slept
    /\ UNCHANGED <<arbVars, avVars, cacheVars, ytVars, lzVars, debVars, msgVars, recVars, dispVars, nameVars>>

\* a variant of BackoffDelay with the same wait before every retry
BackoffDelay_Constant(a) == 15 * (0 * a + 1)

\* streamd(), line 150: asyncio.sleep(1.5 * (attempt + 1)), in tenths of a
\* second
BackoffDelay(a) == 15 * (a + 1)

\* a variant of AfterUnlink that retries whatever the exception is
AfterUnlink_RetryAll(t) ==
    /\ fpc[t] = "unlinked"
    /\ IF attempt[t] = MaxRetries - 1
       THEN /\ fpc' = [fpc EXCEPT ![t] = "raised"]
            /\ UNCHANGED slept
            /\ ferr' = [ferr EXCEPT ![t] = "DownloadException"]
       ELSE /\ fpc' = [fpc EXCEPT ![t] = "backoff"]
            /\ slept' = [slept EXCEPT ![t] = Append(@, BackoffDelay(attempt[t]))]
            /\ UNCHANGED ferr
    /\ UNCHANGED <<fs, fpath, attempt, fpos, attached>>
    /\ UNCHANGED <<arbVars, avVars, cacheVars, ytVars, lzVars, debVars, msgVars, recVars, dispVars, nameVars>>

\* a variant of AfterUnlink that retries without a last attempt
AfterUnlink_RetryAlways(t) ==
    /\ fpc[t] = "unlinked"
    /\ IF ferr[t] \in {"ClientError", "TimeoutError"}
       THEN /\ fpc' = [fpc EXCEPT ![t] = "backoff"]
            /\ slept' = [slept EXCEPT ![t] = Append(@, BackoffDelay(attempt[t]))]
            /\ UNCHANGED ferr
       ELSE /\ fpc' = [fpc EXCEPT ![t] = "raised"]
            /\ UNCHANGED slept
            /\ UNCHANGED ferr
    /\ UNCHANGED <<fs, fpath, attempt, fpos, attached>>
    /\ UNCHANGED <<arbVars, avVars, cacheVars, ytVars, lzVars, debVars, msgVars, recVars, dispVars, nameVars>>

\* streamd(), lines 142-154: the task resumes after safe_unlink; a
\* ClientError or timeout is retried unless it was the last attempt, anything
\* else is raised again
AfterUnlink(t) ==
    /\ fpc[t] = "unlinked"
    /\ IF ferr[t] \in {"ClientError", "TimeoutError"}
       THEN IF attempt[t] = MaxRetries - 1
            THEN /\ fpc' = [fpc EXCEPT ![t] = "raised"]
                 /\ UNCHANGED slept
                 /\ ferr' = [ferr EXCEPT ![t] = "DownloadException"]
            ELSE /\ fpc' = [fpc EXCEPT ![t] = "backoff"]
                 /\ slept' = [slept EXCEPT ![t] = Append(@, BackoffDelay(attempt[t]))]
                 /\ UNCHANGED ferr
       ELSE /\ fpc' = [fpc EXCEPT ![t] = "raised"]
            /\ UNCHANGED slept
            /\ UNCHANGED ferr
    /\ UNCHANGED <<fs, fpath, attempt, fpos, attached>>
    /\ UNCHANGED <<arbVars, avVars, cacheVars, ytVars, lzVars, debVars, msgVars, recVars, dispVars, nameVars>>

\* streamd(), lines 149-151 and 111: the sleep of 1.5 * (attempt + 1) seconds
\* is over, the next attempt sends its request
BackoffDone(t) ==
    /\ fpc[t] = "backoff"
    /\ attempt' = [attempt EXCEPT ![t] = @ + 1]
    /\ fpc' = [fpc EXCEPT ![t] = "request"]
    /\ ferr' = [ferr EXCEPT ![t] = "none"]
    /\ UNCHANGED <<fs, fpath, fpos, attached>>
    /\ UNCHANGED slept
    /\ UNCHANGED <<arbVars, avVars, cacheVars, ytVars, lzVars, debVars, msgVars, recVars, dispVars, nameVars>>

\* the task is cancelled from outside (Task.cancel()) while suspended:
\* CancelledError is a BaseException, so neither handler of lines 142-154
\* runs; leaving the with-blocks closes the file. A safe_unlink already
\* handed to its worker thread may still run or be dropped (unlink_runs).
Cancel(t, unlink_runs) ==
    /\ fpc[t] \in {"request", "writing", "backoff", "unlinking", "unlinked"}
    /\ fpc' = [fpc EXCEPT ![t] = "cancelled"]
    /\ ferr' = [ferr EXCEPT ![t] = "CancelledError"]
    /\ IF fpc[t] = "unlinking" /\ unlink_runs
       THEN /\ fs' = [fs EXCEPT ![fpath[t]] = Absent]
            /\ attached' = [u \in Fetches |->
                              IF fpath[u] = fpath[t] THEN FALSE ELSE attached[u]]
       ELSE /\ fs' = fs
            /\ attached' = [attached EXCEPT ![t] = FALSE]
    /\ UNCHANGED <<fpath, attempt, fpos>>
    /\ UNCHANGED slept
    /\ UNCHANGED <<arbVars, avVars, cacheVars, ytVars, lzVars, debVars, msgVars, recVars, dispVars, nameVars>>

DlNext ==
    \/ \E t \in Fetches, p \in Paths : FetchStart(t, p)
    \/ \E t \in Fetches, ok \in BOOLEAN, cl \in ContentLengths, te \in BOOLEAN :
          Respond(t, ok, cl, te)
    \/ \E t \in Fetches : WriteChunk(t)
    \/ \E t \in Fetches : FetchDone(t)
    \/ \E t \in Fetches, e \in {"ClientError", "TimeoutError", "OSError"} :
          StreamFail(t, e)
    \/ \E t \in Fetches : SafeUnlink(t)
    \/ \E t \in Fetches : AfterUnlink(t)
    \/ \E t \in Fetches : BackoffDone(t)
    \/ \E t \in Fetches, u \in BOOLEAN : Cancel(t, u)

(* -------------------- Downloader.download_av_and_merge ------------------- *)

Merges == 1..MaxMerge
\* "v" is the download_video task, "a" the download_audio task
Legs == {"v", "a"}
AvFiles == {"v", "a", "out"}
\* how the ffmpeg process ends: exit status 0, another exit status, or the
\* executable is missing (FileNotFoundError from create_subprocess_exec)
ExitCodes == {"zero", "nonzero", "notfound"}
NoExit == "none"

AvInit ==
    /\ av_pc = [m \in Merges |-> "idle"]
    /\ leg = [m \in Merges |-> [l \in Legs |-> "idle"]]
    /\ finished = [m \in Merges |-> <<>>]
    /\ avfile = [m \in Merges |-> [f \in AvFiles |-> FALSE]]
    /\ return_code = [m \in Merges |-> NoExit]
    /\ av_err = [m \in Merges |-> "none"]

\* download_av_and_merge(), lines 264-267: both calls are wrapped by auto_task,
\* so both tasks exist before gather is awaited
AvStart(m) ==
    /\ av_pc[m] = "idle"
    /\ av_pc' = [av_pc EXCEPT ![m] = "gathering"]
    /\ leg' = [leg EXCEPT ![m] = [l \in Legs |-> "running"]]
    /\ UNCHANGED <<finished, avfile, return_code, av_err>>
    /\ UNCHANGED <<arbVars, dlVars, cacheVars, ytVars, lzVars, debVars, msgVars, recVars, dispVars, nameVars>>

\* download_video() / download_audio() returns the path of its file
LegDone(m, l) ==
    /\ leg[m][l] = "running"
    /\ leg' = [leg EXCEPT ![m][l] = "ok"]
    /\ finished' = [finished EXCEPT ![m] = Append(@, l)]
    /\ avfile' = [avfile EXCEPT ![m][l] = TRUE]
    /\ UNCHANGED <<av_pc, return_code, av_err>>
    /\ UNCHANGED <<arbVars, dlVars, cacheVars, ytVars, lzVars, debVars, msgVars, recVars, dispVars, nameVars>>

\* download_video() / download_audio() raises (streamd has unlinked the file)
LegFail(m, l) ==
    /\ leg[m][l] = "running"
    /\ leg' = [leg EXCEPT ![m][l] = "failed"]
    /\ finished' = [finished EXCEPT ![m] = Append(@, l)]
    /\ UNCHANGED <<av_pc, avfile, return_code, av_err>>
    /\ UNCHANGED <<arbVars, dlVars, cacheVars, ytVars, lzVars, debVars, msgVars, recVars, dispVars, nameVars>>

\* a variant of GatherReady that is satisfied by one result
GatherReady_Any(legs) == \E l \in Legs : legs[l] = "ok"

\* asyncio.gather() hands over its results when every awaitable has one
GatherReady(legs) == \A l \in Legs : legs[l] = "ok"

\* download_av_and_merge(), lines 264-268: gather returns both paths and
\* merge_av() starts the ffmpeg process (utils.py line 92)
GatherOk(m) ==
    /\ av_pc[m] = "gathering"
    /\ GatherReady(leg[m])
    /\ av_pc' = [av_pc EXCEPT ![m] = "muxing"]
    /\ UNCHANGED <<leg, finished, avfile, return_code, av_err>>
    /\ UNCHANGED <<arbVars, dlVars, cacheVars, ytVars, lzVars, debVars, msgVars, recVars, dispVars, nameVars>>

\* download_av_and_merge(), line 264: gather (return_exceptions left False)
\* raises the first exception to its awaiter; the other awaitable is not
\* cancelled and goes on running
GatherFail(m) ==
    /\ av_pc[m] = "gathering"
    /\ \E l \in Legs : leg[m][l] = "failed"
    /\ av_pc' = [av_pc EXCEPT ![m] = "raised"]
    /\ av_err' = [av_err EXCEPT ![m] = "DownloadException"]
    /\ UNCHANGED <<leg, finished, avfile, return_code>>
    /\ UNCHANGED <<arbVars, dlVars, cacheVars, ytVars, lzVars, debVars, msgVars, recVars, dispVars, nameVars>>

\* a variant of MuxOutcome that does not look at the return code
MuxOutcome_IgnoreCode(code) == IF code = "notfound" THEN "RuntimeError" ELSE "ok"

\* exec_ffmpeg_cmd(), lines 47-58
MuxOutcome(code) == IF code = "zero" THEN "ok" ELSE "RuntimeError"

\* merge_av(), line 92: the ffmpeg process ends.  Exit 0 leaves the output
\* file; another exit may or may not leave one (out_left); RuntimeError
\* leaves merge_av and download_av_and_merge at once
MuxExit(m, code, out_left) ==
    /\ av_pc[m] = "muxing"
    /\ return_code' = [return_code EXCEPT ![m] = code]
    /\ avfile' = [avfile EXCEPT ![m]["out"] =
                     CASE code = "zero" -> TRUE
                       [] code = "nonzero" -> out_left
                       [] OTHER -> @]
    /\ IF MuxOutcome(code) = "ok"
       THEN /\ av_pc' = [av_pc EXCEPT ![m] = "unlinking"]
            /\ UNCHANGED av_err
       ELSE /\ av_pc' = [av_pc EXCEPT ![m] = "raised"]
            /\ av_err' = [av_err EXCEPT ![m] = "RuntimeError"]
    /\ UNCHANGED <<leg, finished>>
    /\ UNCHANGED <<arbVars, dlVars, cacheVars, ytVars, lzVars, debVars, msgVars, recVars, dispVars, nameVars>>

\* merge_av(), line 93: one of the two gathered safe_unlink() calls
UnlinkInput(m, l) ==
    /\ av_pc[m] = "unlinking"
    /\ avfile[m][l]
    /\ avfile' = [avfile EXCEPT ![m][l] = FALSE]
    /\ UNCHANGED <<av_pc, leg, finished, return_code, av_err>>
    /\ UNCHANGED <<arbVars, dlVars, cacheVars, ytVars, lzVars, debVars, msgVars, recVars, dispVars, nameVars>>

\* merge_av() line 94 and download_av_and_merge() line 269: return output_path
MergeDone(m) ==
    /\ av_pc[m] = "unlinking"
    /\ \A l \in Legs : ~avfile[m][l]
    /\ av_pc' = [av_pc EXCEPT ![m] = "ret_ok"]
    /\ UNCHANGED <<leg, finished, avfile, return_code, av_err>>
    /\ UNCHANGED <<arbVars, dlVars, cacheVars, ytVars, lzVars, debVars, msgVars, recVars, dispVars, nameVars>>

AvNext ==
    \/ \E m \in Merges : AvStart(m)
    \/ \E m \in Merges, l \in Legs : LegDone(m, l)
    \/ \E m \in Merges, l \in Legs : LegFail(m, l)
    \/ \E m \in Merges : GatherOk(m)
    \/ \E m \in Merges : GatherFail(m)
    \/ \E m \in Merges, code \in ExitCodes, out_left \in BOOLEAN :
          MuxExit(m, code, out_left)
    \/ \E m \in Merges, l \in Legs : UnlinkInput(m, l)
    \/ \E m \in Merges : MergeDone(m)

(* ---------------------------- LimitedSizeDict ---------------------------- *)

Urls == 1..MaxUrl
\* config["source_max_minute"] as a duration
MaxDuration == 1
\* VideoInfo.duration is None
NoDuration == 0
\* the durations a VideoInfo may carry
Durations == {NoDuration, MaxDuration, MaxDuration + 1}
\* operations applied to the cache directly
MaxOps == CacheSize + 2

\* the keys of an OrderedDict in its order
Keys(d) == [i \in 1..Len(d) |-> d[i].key]
HasKey(d, k) == \E i \in 1..Len(d) : d[i].key = k
\* OrderedDict.get(k): the value, or None
GetItem(d, k) ==
    IF HasKey(d, k) THEN (CHOOSE i \in 1..Len(d) : d[i].key = k) ELSE 0
GetValue(d, k) == IF HasKey(d, k) THEN d[GetItem(d, k)].value ELSE NoDuration

\* a variant of AfterGet that moves the key read to the end (an LRU cache)
AfterGet_Touch(d, k) ==
    IF HasKey(d, k)
    THEN SelectSeq(d, LAMBDA it : it.key # k) \o <<d[GetItem(d, k)]>>
    ELSE d

\* OrderedDict.get is inherited unchanged: a read leaves the dict as it is
AfterGet(d, k) == d

\* a variant of SuperSetItem that moves a key written again to the end
SuperSetItem_MoveToEnd(d, k, v) ==
    Append(SelectSeq(d, LAMBDA it : it.key # k), [key |-> k, value |-> v])

\* OrderedDict.__setitem__: a new key goes to the end, an existing key
\* keeps its place and takes the value
SuperSetItem(d, k, v) ==
    IF HasKey(d, k)
    THEN [i \in 1..Len(d) |-> IF d[i].key = k THEN [key |-> k, value |-> v] ELSE d[i]]
    ELSE Append(d, [key |-> k, value |-> v])

\* a variant of SetItem that pops the item added last
SetItem_PopLast(d, k, v) ==
    LET e == SuperSetItem(d, k, v)
    IN IF Len(e) > CacheSize THEN SubSeq(e, 1, Len(e) - 1) ELSE e

\* LimitedSizeDict.__setitem__, lines 25-28
SetItem(d, k, v) ==
    LET e == SuperSetItem(d, k, v)
    IN IF Len(e) > CacheSize THEN Tail(e) ELSE e

CacheInit ==
    /\ info_cache = <<>>
    /\ cache_ops = <<>>

\* d[k] = v by a caller
CacheSet(k, v) ==
    /\ Len(cache_ops) < MaxOps
    /\ info_cache' = SetItem(info_cache, k, v)
    /\ cache_ops' = Append(cache_ops,
                       [op |-> "set", key |-> k, found |-> HasKey(info_cache, k)])
    /\ UNCHANGED <<arbVars, dlVars, avVars, ytVars, lzVars, debVars, msgVars, recVars, dispVars, nameVars>>

\* d.get(k) by a caller
CacheGet(k) ==
    /\ Len(cache_ops) < MaxOps
    /\ info_cache' = AfterGet(info_cache, k)
    /\ cache_ops' = Append(cache_ops,
                       [op |-> "get", key |-> k, found |-> HasKey(info_cache, k)])
    /\ UNCHANGED <<arbVars, dlVars, avVars, ytVars, lzVars, debVars, msgVars, recVars, dispVars, nameVars>>

CacheNext ==
    \/ \E k \in Urls, v \in Durations \ {NoDuration} : CacheSet(k, v)
    \/ \E k \in Urls : CacheGet(k)

(* --------------------------- yt-dlp downloads ---------------------------- *)

YtTasks == 1..MaxYt
YtKinds == {"video", "audio"}
\* the media behind the url has not been looked at yet
UnknownDuration == -1

YtInit ==
    /\ yt_pc = [t \in YtTasks |-> "idle"]
    /\ yt_kind = [t \in YtTasks |-> "video"]
    /\ yt_url = [t \in YtTasks |-> 1]
    /\ yt_info = [t \in YtTasks |-> NoDuration]
    /\ yt_checked = [t \in YtTasks |-> FALSE]
    /\ yt_dl = [t \in YtTasks |-> FALSE]
    /\ yt_err = [t \in YtTasks |-> "none"]
    /\ yt_files = [k \in YtKinds |-> [u \in Urls |-> FALSE]]
    /\ media_dur = [u \in Urls |-> UnknownDuration]

\* _ytdlp_download_video(), lines 300-311, once info is there: the duration
\* test, then the test for the output file, then the download
VideoBranch(duration, exists) ==
    IF duration # NoDuration /\ duration > MaxDuration THEN "DurationLimit"
    ELSE IF exists THEN "ret_exists"
    ELSE "downloading"

\* _ytdlp_download_audio(), lines 348-349: only the test for the output file
AudioBranch(exists) == IF exists THEN "ret_exists" ELSE "downloading"

\* the task t moves on to branch br
YtGoto(t, br) ==
    /\ yt_pc' = [yt_pc EXCEPT ![t] = IF br = "DurationLimit" THEN "raised" ELSE br]
    /\ yt_err' = [yt_err EXCEPT ![t] = IF br = "DurationLimit" THEN br ELSE @]
    /\ yt_dl' = [yt_dl EXCEPT ![t] = (br = "downloading")]

\* download_video(use_ytdlp=True) / download_audio(use_ytdlp=True) start.
\* Video: ytdlp_extract_info() answers from info_cache (lines 276-277) or
\* hands extract_info to a worker thread (line 288).  Audio: no info is
\* fetched.  d is the duration of the media behind the url.
YtStart(t, kind, u, d) ==
    /\ yt_pc[t] = "idle"
    /\ t > 1 => yt_pc[t - 1] # "idle"
    /\ media_dur[u] \in {UnknownDuration, d}
    /\ media_dur' = [media_dur EXCEPT ![u] = d]
    /\ yt_kind' = [yt_kind EXCEPT ![t] = kind]
    /\ yt_url' = [yt_url EXCEPT ![t] = u]
    /\ IF kind = "video"
       THEN /\ info_cache' = AfterGet(info_cache, u)
            /\ cache_ops' = Append(cache_ops,
                  [op |-> "get", key |-> u, found |-> HasKey(info_cache, u)])
            /\ IF HasKey(info_cache, u)
               THEN /\ yt_info' = [yt_info EXCEPT ![t] = GetValue(info_cache, u)]
                    /\ yt_checked' = [yt_checked EXCEPT ![t] = TRUE]
                    /\ YtGoto(t, VideoBranch(GetValue(info_cache, u),
                                             yt_files["video"][u]))
               ELSE /\ yt_pc' = [yt_pc EXCEPT ![t] = "extracting"]
                    /\ UNCHANGED <<yt_info, yt_checked, yt_dl, yt_err>>
       ELSE /\ YtGoto(t, AudioBranch(yt_files["audio"][u]))
            /\ UNCHANGED <<yt_info, yt_checked, cacheVars>>
    /\ UNCHANGED yt_files
    /\ UNCHANGED <<arbVars, dlVars, avVars, lzVars, debVars, msgVars, recVars, dispVars, nameVars>>

\* a variant of ExtractDone that caches an empty result as well
ExtractDone_CacheEmpty(t, raw_ok) ==
    /\ yt_pc[t] = "extracting"
    /\ info_cache' = SetItem(info_cache, yt_url[t],
                             IF raw_ok THEN media_dur[yt_url[t]] ELSE NoDuration)
    /\ cache_ops' = Append(cache_ops,
          [op |-> "set", key |-> yt_url[t],
           found |-> HasKey(info_cache, yt_url[t])])
    /\ IF raw_ok
       THEN /\ yt_info' = [yt_info EXCEPT ![t] = media_dur[yt_url[t]]]
            /\ yt_checked' = [yt_checked EXCEPT ![t] = TRUE]
            /\ YtGoto(t, VideoBranch(media_dur[yt_url[t]],
                                     yt_files["video"][yt_url[t]]))
       ELSE /\ yt_pc' = [yt_pc EXCEPT ![t] = "raised"]
            /\ yt_err' = [yt_err EXCEPT ![t] = "ParseException"]
            /\ UNCHANGED <<yt_info, yt_checked, yt_dl>>
    /\ UNCHANGED <<yt_kind, yt_url, yt_files, media_dur>>
    /\ UNCHANGED <<arbVars, dlVars, avVars, lzVars, debVars, msgVars, recVars, dispVars, nameVars>>

\* ytdlp_extract_info(), lines 288-294: extract_info returns; an empty
\* result raises ParseException, otherwise the info is cached and
\* _ytdlp_download_video() goes on with line 300
ExtractDone(t, raw_ok) ==
    /\ yt_pc[t] = "extracting"
    /\ IF raw_ok
       THEN /\ info_cache' = SetItem(info_cache, yt_url[t], media_dur[yt_url[t]])
            /\ cache_ops' = Append(cache_ops,
                  [op |-> "set", key |-> yt_url[t],
                   found |-> HasKey(info_cache, yt_url[t])])
            /\ yt_info' = [yt_info EXCEPT ![t] = media_dur[yt_url[t]]]
            /\ yt_checked' = [yt_checked EXCEPT ![t] = TRUE]
            /\ YtGoto(t, VideoBranch(media_dur[yt_url[t]],
                                     yt_files["video"][yt_url[t]]))
       ELSE /\ yt_pc' = [yt_pc EXCEPT ![t] = "raised"]
            /\ yt_err' = [yt_err EXCEPT ![t] = "ParseException"]
            /\ UNCHANGED <<yt_info, yt_checked, yt_dl, cacheVars>>
    /\ UNCHANGED <<yt_kind, yt_url, yt_files, media_dur>>
    /\ UNCHANGED <<arbVars, dlVars, avVars, lzVars, debVars, msgVars, recVars, dispVars, nameVars>>

\* lines 331-334 / 368-371: ydl.download returns (the file is there) or raises
YtDownloadDone(t, ok) ==
    /\ yt_pc[t] = "downloading"
    /\ IF ok
       THEN /\ yt_pc' = [yt_pc EXCEPT ![t] = "ret_ok"]
            /\ yt_files' = [yt_files EXCEPT ![yt_kind[t]][yt_url[t]] = TRUE]
            /\ UNCHANGED yt_err
       ELSE /\ yt_pc' = [yt_pc EXCEPT ![t] = "raised"]
            /\ yt_err' = [yt_err EXCEPT ![t] = "DownloadError"]
            /\ UNCHANGED yt_files
    /\ UNCHANGED <<yt_kind, yt_url, yt_info, yt_checked, yt_dl, media_dur>>
    /\ UNCHANGED <<arbVars, dlVars, avVars, cacheVars, lzVars, debVars, msgVars, recVars, dispVars, nameVars>>

YtNext ==
    \/ \E t \in YtTasks, kind \in YtKinds, u \in Urls, d \in Durations :
          YtStart(t, kind, u, d)
    \/ \E t \in YtTasks, raw_ok \in BOOLEAN : ExtractDone(t, raw_ok)
    \/ \E t \in YtTasks, ok \in BOOLEAN : YtDownloadDone(t, ok)

(* ------------------------------- auto_task ------------------------------- *)

Lazies == 1..MaxLazy
Accesses == 1..MaxAccess
NoResult == [ok |-> FALSE, val |-> "none"]
\* what one run of the wrapped download ends with: its path or an exception
Outcomes == {[ok |-> TRUE, val |-> "path"],
             [ok |-> FALSE, val |-> "DownloadException"],
             [ok |-> FALSE, val |-> "SizeLimitException"]}

LzInit ==
    /\ lz_task = [z \in Lazies |-> "none"]
    /\ lz_runs = [z \in Lazies |-> 0]
    /\ lz_result = [z \in Lazies |-> NoResult]
    /\ acc_pc = [a \in Accesses |-> "idle"]
    /\ acc_of = [a \in Accesses |-> 1]
    /\ acc_val = [a \in Accesses |-> NoResult]

\* auto_task wrapper, lines 35-38: the call builds the coroutine and hands
\* it to create_task
AutoTask(z) ==
    /\ lz_task[z] = "none"
    /\ z > 1 => lz_task[z - 1] # "none"
    /\ lz_task' = [lz_task EXCEPT ![z] = "scheduled"]
    /\ UNCHANGED <<lz_runs, lz_result, acc_pc, acc_of, acc_val>>
    /\ UNCHANGED <<arbVars, dlVars, avVars, cacheVars, ytVars, debVars, msgVars, recVars, dispVars, nameVars>>

\* a variant of TaskRunnable that starts the coroutine again once it is done
TaskRunnable_Again(st) == st \in {"scheduled", "done"}

\* the event loop starts the coroutine of a Task once, after create_task
TaskRunnable(st) == st = "scheduled"

\* the coroutine of the Task starts to run
TaskStep(z) ==
    /\ TaskRunnable(lz_task[z])
    /\ lz_task' = [lz_task EXCEPT ![z] = "running"]
    /\ lz_runs' = [lz_runs EXCEPT ![z] = @ + 1]
    /\ UNCHANGED <<lz_result, acc_pc, acc_of, acc_val>>
    /\ UNCHANGED <<arbVars, dlVars, avVars, cacheVars, ytVars, debVars, msgVars, recVars, dispVars, nameVars>>

\* the coroutine returns or raises: the Task keeps the result or exception
TaskFinish(z, o) ==
    /\ lz_task[z] = "running"
    /\ lz_task' = [lz_task EXCEPT ![z] = "done"]
    /\ lz_result' = [lz_result EXCEPT ![z] = o]
    /\ UNCHANGED <<lz_runs, acc_pc, acc_of, acc_val>>
    /\ UNCHANGED <<arbVars, dlVars, avVars, cacheVars, ytVars, debVars, msgVars, recVars, dispVars, nameVars>>

\* an access ends with what the Task holds
Resolve(a, z) ==
    /\ acc_pc' = [acc_pc EXCEPT ![a] = IF lz_result[z].ok THEN "returned" ELSE "raised"]
    /\ acc_val' = [acc_val EXCEPT ![a] = lz_result[z]]

\* `await cont.get_path()` (main.py lines 212, 230): the access awaits the
\* Task; a Task that is done answers at once
GetPath(a, z) ==
    /\ acc_pc[a] = "idle"
    /\ a > 1 => acc_pc[a - 1] # "idle"
    /\ lz_task[z] # "none"
    /\ acc_of' = [acc_of EXCEPT ![a] = z]
    /\ IF lz_task[z] = "done"
       THEN Resolve(a, z)
       ELSE /\ acc_pc' = [acc_pc EXCEPT ![a] = "waiting"]
            /\ UNCHANGED acc_val
    /\ UNCHANGED <<lz_task, lz_runs, lz_result>>
    /\ UNCHANGED <<arbVars, dlVars, avVars, cacheVars, ytVars, debVars, msgVars, recVars, dispVars, nameVars>>

\* the Task awaited is done: the waiting access resumes
GetPathResume(a) ==
    /\ acc_pc[a] = "waiting"
    /\ lz_task[acc_of[a]] = "done"
    /\ Resolve(a, acc_of[a])
    /\ UNCHANGED <<lz_task, lz_runs, lz_result, acc_of>>
    /\ UNCHANGED <<arbVars, dlVars, avVars, cacheVars, ytVars, debVars, msgVars, recVars, dispVars, nameVars>>

LzNext ==
    \/ \E z \in Lazies : AutoTask(z)
    \/ \E z \in Lazies : TaskStep(z)
    \/ \E z \in Lazies, o \in Outcomes : TaskFinish(z, o)
    \/ \E a \in Accesses, z \in Lazies : GetPath(a, z)
    \/ \E a \in Accesses : GetPathResume(a)

(* ------------------------------ LinkDebouncer ---------------------------- *)

\* event.unified_msg_origin
Sessions == {"s1", "s2"}
\* the text the link pattern matched
Links == {"l1", "l2"}
DebKeys == Sessions \X Links
\* config["debounce_interval"]
Interval == 5
\* the debouncer holds no entry for the pair
NoEntry == -1

DebInit ==
    /\ deb_last = [k \in DebKeys |-> NoEntry]
    /\ now = 0
    /\ hit_log = <<>>

\* a variant of HitResult whose entries never expire
HitResult_NoExpiry(last, t) == last # NoEntry

\* hit(): true when the pair was seen within the interval
HitResult(last, t) == last # NoEntry /\ t - last < Interval

\* a variant of HitLast that refreshes the entry on every call
HitLast_Sliding(last, t) == t

\* hit(): the sighting is recorded when the result is false
HitLast(last, t) == IF HitResult(last, t) THEN last ELSE t

\* the effect of one call hit(session, link) on the debouncer
Hit(k) ==
    /\ deb_last' = [deb_last EXCEPT ![k] = HitLast(deb_last[k], now)]
    /\ hit_log' = Append(hit_log,
                     [key |-> k, at |-> now, res |-> HitResult(deb_last[k], now)])

\* hit(session, link) called
DebHit(k) ==
    /\ Len(hit_log) < MaxHits
    /\ Hit(k)
    /\ UNCHANGED now
    /\ UNCHANGED <<arbVars, dlVars, avVars, cacheVars, ytVars, lzVars, msgVars, recVars, dispVars, nameVars>>

\* time passes
Tick ==
    /\ now < MaxTime
    /\ now' = now + 1
    /\ UNCHANGED <<deb_last, hit_log>>
    /\ UNCHANGED <<arbVars, dlVars, avVars, cacheVars, ytVars, lzVars, msgVars, recVars, dispVars, nameVars>>

\* a whole debounce interval passes
IntervalPasses ==
    /\ now + Interval <= MaxTime
    /\ now' = now + Interval
    /\ UNCHANGED <<deb_last, hit_log>>
    /\ UNCHANGED <<arbVars, dlVars, avVars, cacheVars, ytVars, lzVars, msgVars, recVars, dispVars, nameVars>>

DebNext ==
    \/ \E k \in DebKeys : DebHit(k)
    \/ Tick

(* ------------------------ ParserPlugin.on_message ------------------------ *)

Handlers == 1..MaxHandler
NoLink == "none"
\* an inbound event: early says that one of the returns of lines 286-320
\* applies (disabled session, empty chain or text, an At for another bot);
\* group that it is an aiocqhttp event outside a private chat; cmd that the
\* text starts with a command prefix; link is what the patterns matched
\* (nothing is searched in a command).  Fields the handler does not read
\* on the path the event takes are left at one value.
Events ==
    {e \in [early : BOOLEAN, group : BOOLEAN, cmd : BOOLEAN,
            session : Sessions, link : Links \cup {NoLink}] :
        /\ e.cmd => e.link = NoLink
        /\ (e.early \/ e.link = NoLink) => e.session = "s1"
        /\ (e.early \/ (~e.cmd /\ e.link = NoLink)) => ~e.group
        /\ e.early => (~e.cmd /\ e.link = NoLink)}
\* how a compete() call ends (arbiter.py lines 85-117): without a post
\* (locked, concede), with a failed post, or after its own reaction was
\* posted, as the loser or the winner
CompeteOutcomes == {"locked", "concede", "postfail", "lost", "won"}
\* how parse() and _send_parse_result() end (lines 359-368)
ParseOutcomes == {"sent", "empty", "DurationLimit", "SizeLimit", "error"}

MsgInit ==
    /\ m_pc = [h \in Handlers |-> "idle"]
    /\ m_in = [h \in Handlers |->
                 [early |-> TRUE, group |-> FALSE, cmd |-> FALSE,
                  session |-> "s1", link |-> NoLink]]
    /\ m_win = [h \in Handlers |-> "none"]
    /\ m_posted = [h \in Handlers |-> FALSE]
    /\ m_hit = [h \in Handlers |-> "none"]
    /\ m_parsed = [h \in Handlers |-> FALSE]
    /\ m_sent = [h \in Handlers |-> FALSE]

\* a variant of AfterCompete that goes on after a lost arbitration
AfterCompete_IgnoreLoss(is_win, is_command) ==
    IF is_command THEN "done" ELSE "debounce"

\* on_message(), lines 340-347: a loser returns, then a command returns
AfterCompete(is_win, is_command) ==
    IF ~is_win THEN "done"
    ELSE IF is_command THEN "done"
    ELSE "debounce"

\* on_message(), lines 352-360: the debouncer is asked (the interval is not
\* zero); a suppressed link returns, otherwise parse() is called
Debounce(h, e) ==
    LET k == <<e.session, e.link>>
    IN /\ Hit(k)
       /\ IF HitResult(deb_last[k], now)
          THEN /\ m_hit' = [m_hit EXCEPT ![h] = "suppressed"]
               /\ m_pc' = [m_pc EXCEPT ![h] = "done"]
               /\ UNCHANGED m_parsed
          ELSE /\ m_hit' = [m_hit EXCEPT ![h] = "passed"]
               /\ m_pc' = [m_pc EXCEPT ![h] = "parsing"]
               /\ m_parsed' = [m_parsed EXCEPT ![h] = TRUE]

\* on_message(), lines 345-360, from the end of the arbitration on
Proceed(h, e, is_win) ==
    IF AfterCompete(is_win, e.cmd) = "done"
    THEN /\ m_pc' = [m_pc EXCEPT ![h] = "done"]
         /\ UNCHANGED <<m_hit, m_parsed, deb_last, hit_log>>
    ELSE Debounce(h, e)

\* on_message(), lines 282-347: the event arrives; the handler returns
\* early, or awaits compete() in a group chat, or goes on at once
OnMessage(h, e) ==
    /\ m_pc[h] = "idle"
    /\ h > 1 => m_pc[h - 1] # "idle"
    /\ m_in' = [m_in EXCEPT ![h] = e]
    /\ IF e.early \/ (~e.cmd /\ e.link = NoLink)
       THEN /\ m_pc' = [m_pc EXCEPT ![h] = "done"]
            /\ UNCHANGED <<m_hit, m_parsed, deb_last, hit_log>>
       ELSE IF e.group
       THEN /\ m_pc' = [m_pc EXCEPT ![h] = "competing"]
            /\ UNCHANGED <<m_hit, m_parsed, deb_last, hit_log>>
       ELSE Proceed(h, e, TRUE)
    /\ UNCHANGED <<m_win, m_posted, m_sent, now>>
    /\ UNCHANGED <<arbVars, dlVars, avVars, cacheVars, ytVars, lzVars, recVars, dispVars, nameVars>>

\* on_message(), lines 331-360: compete() returns
CompeteReturn(h, outcome) ==
    /\ m_pc[h] = "competing"
    /\ m_win' = [m_win EXCEPT ![h] = IF outcome = "won" THEN "true" ELSE "false"]
    /\ m_posted' = [m_posted EXCEPT ![h] = outcome \in {"lost", "won"}]
    /\ Proceed(h, m_in[h], outcome = "won")
    /\ UNCHANGED <<m_in, m_sent, now>>
    /\ UNCHANGED <<arbVars, dlVars, avVars, cacheVars, ytVars, lzVars, recVars, dispVars, nameVars>>

\* on_message(), lines 359-368: parse() and _send_parse_result() end; media
\* or a limit warning is sent, or nothing (no segment, or an error logged)
ParseDone(h, outcome) ==
    /\ m_pc[h] = "parsing"
    /\ m_pc' = [m_pc EXCEPT ![h] = "done"]
    /\ m_sent' = [m_sent EXCEPT ![h] = outcome \in {"sent", "DurationLimit", "SizeLimit"}]
    /\ UNCHANGED <<m_in, m_win, m_posted, m_hit, m_parsed>>
    /\ UNCHANGED <<arbVars, dlVars, avVars, cacheVars, ytVars, lzVars, debVars, recVars, dispVars, nameVars>>

MsgNext ==
    \/ \E h \in Handlers, e \in Events : OnMessage(h, e)
    \/ \E h \in Handlers, outcome \in CompeteOutcomes : CompeteReturn(h, outcome)
    \/ \E h \in Handlers, outcome \in ParseOutcomes : ParseDone(h, outcome)
    \/ IntervalPasses

Init == ArbInit /\ RecInit /\ DispInit /\ NameInit /\ DlInit /\ AvInit /\ CacheInit /\ YtInit /\ LzInit /\ DebInit
        /\ MsgInit

\* the arbiters of all instances and the reaction channel between them
SpecArb == Init /\ [][ArbNext]_vars

\* the streamd tasks of one Downloader and its cache directory
SpecRec == Init /\ [][RecNext]_vars

SpecDisp == Init /\ [][DispNext]_vars

SpecName == Init /\ [][NameNext]_vars

SpecDl == Init /\ [][DlNext]_vars

\* the steps of task t that the event loop, the server and the worker thread
\* take for it: a response or a request failure arrives, a chunk is written,
\* the body ends, safe_unlink runs, the handler resumes, the sleep ends
Advance(t) ==
    \/ \E ok \in BOOLEAN, cl \in ContentLengths, te \in BOOLEAN :
          Respond(t, ok, cl, te)
    \/ WriteChunk(t)
    \/ FetchDone(t)
    \/ SafeUnlink(t)
    \/ AfterUnlink(t)
    \/ BackoffDone(t)

\* every attempt of every task terminates
SpecDlFair == SpecDl /\ \A t \in Fetches : WF_vars(Advance(t))

\* the fetch-and-merge tasks alone
SpecAv == Init /\ [][AvNext]_vars

\* the info_cache alone, under any sequence of reads and writes
SpecCache == Init /\ [][CacheNext]_vars

\* the yt-dlp download tasks alone
SpecYt == Init /\ [][YtNext]_vars

\* the auto_task downloads and their awaiters alone
SpecLz == Init /\ [][LzNext]_vars

\* the debouncer alone, called at any times
SpecDeb == Init /\ [][DebNext]_vars

\* the message handlers of one plugin instance, with its debouncer
SpecMsg == Init /\ [][MsgNext]_vars

(* ------------------------ properties: arbiter --------------------------- *)

\* the calls for message m that have drawn a token and posted, or are posting
Drawn(m) ==
    {c \in Calls : call_msg[c] = m /\ pc[c] \in {"posting", "sleeping", "ret_decide"}}

\* the reactions the human member has on message m
UserNotices(m) ==
    {n \in reactions : n.message_id = m /\ n.user_id = UserId}

\* all tokens in play for message m are pairwise distinct
TokensDistinct(m) ==
    /\ \A c1, c2 \in Drawn(m) : c1 # c2 => call_emoji[c1] # call_emoji[c2]
    /\ \A c \in Drawn(m) : \A n \in UserNotices(m) : n.emoji_id # call_emoji[c]

\* the instances with a compete call for m that returned true
Winners(m) ==
    {b \in Bots : \E c \in Calls :
        call_bot[c] = b /\ call_msg[c] = m /\ pc[c] = "ret_decide" /\ result[c]}

\* instance b's list for m holds every reaction the platform shows on m
HasAllPosted(b, m) ==
    \A n \in reactions : n.message_id = m =>
        \E k \in DOMAIN like_cache[b][m] :
            like_cache[b][m][k] = EmojiLikeRecord(n.user_id, n.emoji_id)

\* the account holding the least token among the reactions shown on m
MinHolder(m) ==
    LET shown == {n \in reactions : n.message_id = m}
        low == CHOOSE n \in shown : \A o \in shown : n.emoji_id <= o.emoji_id
    IN low.user_id

\* call c takes the step that runs _decide
DecideStep(c) == pc[c] = "sleeping" /\ pc'[c] = "ret_decide"

\* call c enters compete
EnterStep(c) == pc[c] = "idle" /\ pc'[c] # "idle"

\* C1: for a message id several instances compete for, with notices delivered
\* asynchronously and all tokens distinct, at most one instance's compete
\* returns true.
C1_AtMostOneWinner ==
    \A m \in Msgs : TokensDistinct(m) => Cardinality(Winners(m)) <= 1

\* C2: when the deciding instance's list holds every posted token and the
\* tokens are distinct, decide returns true exactly for the holder of the
\* least token.
C2_MinTokenWins ==
    [][\A c \in Calls :
          (/\ DecideStep(c)
           /\ HasAllPosted(call_bot[c], call_msg[c])
           /\ TokensDistinct(call_msg[c]))
          => (result'[c] <=> MinHolder(call_msg[c]) = call_bot[c])]_vars

\* C2 witness: both instances and the human member reacted with distinct
\* tokens, every notice was delivered before the decisions (nothing is in
\* flight and nothing arrived late), and exactly the holder of the least
\* token won, the other instance lost in its own decide.
C2_Witness ==
    /\ \A c \in Drawn(1) : pc[c] = "ret_decide"
    /\ \E c1, c2 \in Drawn(1) : call_bot[c1] # call_bot[c2]
    /\ TokensDistinct(1)
    /\ Cardinality({n \in reactions : n.message_id = 1}) = 3
    /\ \A b \in Bots : inflight[b] = {} /\ like_cache[b][1] = <<>>
    /\ \E c \in Drawn(1) : result[c] /\ MinHolder(1) = call_bot[c]
    /\ \E c \in Drawn(1) : ~result[c]

\* C3: a decided id stays decided, and a compete call entered for a decided
\* id returns false, posts nothing and changes no arbiter state.
C3_DecidedIsPermanent ==
    [][/\ \A b \in Bots : locks[b] \subseteq locks'[b]
       /\ \A c \in Calls :
            (EnterStep(c) /\ call_msg'[c] \in locks[call_bot'[c]])
            => /\ pc'[c] = "ret_locked"
               /\ ~result'[c]
               /\ UNCHANGED <<like_cache, self_emoji, locks, reactions, inflight>>]_vars

\* C3 witness: a compete call has returned through the test of the decided set
C3_Witness ==
    \E c \in Calls : pc[c] = "ret_locked" /\ call_msg[c] \in locks[call_bot[c]]

\* C4: a compete call entered while the list of its id holds a record returns
\* false without posting.
C4_ConcedeWithoutPost ==
    [][\A c \in Calls :
          (EnterStep(c) /\ like_cache[call_bot'[c]][call_msg'[c]] # <<>>)
          => /\ pc'[c] \in {"ret_concede", "ret_locked"}
             /\ ~result'[c]
             /\ reactions' = reactions
             /\ inflight' = inflight]_vars

\* C4 witness: a call conceded to a record of another account that
\* record_like had stored
C4_Witness ==
    \E c \in Calls :
        /\ pc[c] = "ret_concede"
        /\ ~result[c]
        /\ like_cache[call_bot[c]][call_msg[c]] # <<>>
        /\ \A k \in DOMAIN like_cache[call_bot[c]][call_msg[c]] :
               like_cache[call_bot[c]][call_msg[c]][k].user_id # call_bot[c]

\* the calls of instance b for message m that returned true
TrueCalls(b, m) ==
    {c \in Calls : call_bot[c] = b /\ call_msg[c] = m
                   /\ pc[c] = "ret_decide" /\ result[c]}

\* C5: within one instance, only a decide that finds the id undecided locks
\* it and may return true, a decide that finds it decided returns false, and
\* of the (possibly overlapping) compete calls for one id at most one returns
\* true.
C5_DecisionsOrdered ==
    /\ [](\A b \in Bots, m \in Msgs : Cardinality(TrueCalls(b, m)) <= 1)
    /\ [][\A c \in Calls : DecideStep(c) =>
            /\ result'[c] => /\ call_msg[c] \notin locks[call_bot[c]]
                             /\ call_msg[c] \in locks'[call_bot[c]]
            /\ call_msg[c] \in locks[call_bot[c]] =>
                   ~result'[c] /\ locks' = locks]_vars

\* C5 witness: two compete calls of one instance for one id overlapped, both
\* posted and both ran decide; one returned true, the other false
C5_Witness ==
    /\ call_bot[1] = call_bot[2] /\ call_msg[1] = call_msg[2]
    /\ pc[1] = "ret_decide" /\ pc[2] = "ret_decide"
    /\ result[1] # result[2]
    /\ Cardinality({n \in reactions : n.user_id = call_bot[1]}) = 2

\* C6: after decide has run for a message id, the arbiter holds no record
\* list and no own token for that id.
C6_PurgedAfterDecide ==
    [][\A c \in Calls : DecideStep(c) =>
          /\ like_cache'[call_bot[c]][call_msg[c]] = <<>>
          /\ self_emoji'[call_bot[c]][call_msg[c]] = NoEmoji]_vars

\* C7: a notice for an already decided id leaves the lists, the own tokens
\* and the decided set unchanged.
C7_LateNoticeIgnored ==
    [][\A b \in Bots : \A n \in inflight[b] :
          (inflight'[b] = inflight[b] \ {n} /\ n.message_id \in locks[b])
          => UNCHANGED <<like_cache, self_emoji, locks>>]_vars

\* every own record and own token an instance holds is of a reaction the
\* platform accepted
OwnRecordsPosted ==
    \A b \in Bots, m \in Msgs :
        /\ self_emoji[b][m] # NoEmoji => Notice(m, b, self_emoji[b][m]) \in reactions
        /\ \A k \in DOMAIN like_cache[b][m] :
               like_cache[b][m][k].user_id = b =>
                   Notice(m, b, like_cache[b][m][k].emoji_id) \in reactions

\* C8: a failed post makes compete return false, stores no own token and no
\* own record and does not mark the id decided; an own record is stored only
\* after a successful post.
C8_PostFailureIsLoss ==
    /\ []OwnRecordsPosted
    /\ [][\A c \in Calls :
            (pc[c] = "posting" /\ pc'[c] = "ret_postfail")
            => /\ ~result'[c]
               /\ UNCHANGED <<like_cache, self_emoji, locks, reactions>>]_vars

\* C8 witness: a call returned through the failed post and the instance holds
\* nothing for the id
C8_Witness ==
    \E c \in Calls :
        /\ pc[c] = "ret_postfail"
        /\ ~result[c]
        /\ like_cache[call_bot[c]][call_msg[c]] = <<>>
        /\ self_emoji[call_bot[c]][call_msg[c]] = NoEmoji
        /\ call_msg[c] \notin locks[call_bot[c]]


\* the index of the record _decide of call c is about to pick: no record has
\* a smaller emoji_id and none before it has the same
FirstLeast(records, k) ==
    /\ \A j \in DOMAIN records : records[k].emoji_id <= records[j].emoji_id
    /\ \A j \in 1..(k - 1) : records[j].emoji_id # records[k].emoji_id

\* C34: among records sharing the least emoji_id the decision takes the one
\* appended first: a call that decides on an undecided id with its own token
\* recorded wins exactly when that record is its instance's.
C34_TieToFirstArrival ==
    [][\A c \in Calls :
          LET b == call_bot[c]
              records == like_cache[b][call_msg[c]]
          IN (/\ pc[c] = "sleeping" /\ pc'[c] = "ret_decide"
              /\ call_msg[c] \notin locks[b]
              /\ records # <<>> /\ self_emoji[b][call_msg[c]] # NoEmoji)
             => \A k \in DOMAIN records :
                   FirstLeast(records, k)
                   => (result'[c] <=> records[k].user_id = b)]_vars

\* C34 witness: two instances drew the same emoji_id for the same message,
\* each had recorded itself before the other's notice, and both have won
C34_Witness ==
    \E c1, c2 \in Calls :
        /\ call_bot[c1] # call_bot[c2] /\ call_msg[c1] = call_msg[c2]
        /\ call_emoji[c1] = call_emoji[c2]
        /\ pc[c1] = "ret_decide" /\ pc[c2] = "ret_decide"
        /\ result[c1] /\ result[c2]
        /\ \A b \in Bots : inflight[b] = {}

\* compete call c of instance b for message m has returned
ReturnedCall(c, b, m) ==
    /\ call_bot[c] = b /\ call_msg[c] = m
    /\ pc[c] \in {"ret_locked", "ret_concede", "ret_postfail", "ret_decide"}

\* compete call c of instance b for message m is suspended in the post or
\* in the sleep
InFlightCall(c, b, m) ==
    /\ call_bot[c] = b /\ call_msg[c] = m
    /\ pc[c] \in {"posting", "sleeping"}

\* C35: an instance holds no record list and no own token for a message id
\* for which a compete call of it has returned and none is in flight.
C35_NoLeak ==
    \A b \in Bots, m \in Msgs :
        (/\ \E c \in Calls : ReturnedCall(c, b, m)
         /\ ~\E c \in Calls : InFlightCall(c, b, m))
        => like_cache[b][m] = <<>> /\ self_emoji[b][m] = NoEmoji

\* C36: the platform has at most one reaction of an instance on a message.
C36_OnePostPerMessage ==
    \A b \in Bots, m \in Msgs :
        Cardinality({n \in reactions : n.user_id = b /\ n.message_id = m}) <= 1

\* the records of the parseable items of a raw message, in the order of the
\* items
GoodRecords(raw) ==
    LET good == SelectSeq(LikesOf(raw), LAMBDA it : it.emoji_id.kind # "junk"
                                                  /\ it.emoji_id.kind # "missing")
    IN [k \in 1..Len(good) |->
           [user_id |-> raw.head.user_id.num, emoji_id |-> good[k].emoji_id.num]]

\* the header of the raw message is that of a reaction notice with numeric
\* message id, actor id and time
WellFormed(raw) ==
    /\ raw.head.notice_type = "group_msg_emoji_like"
    /\ \A f \in {"message_id", "user_id", "time"} :
          raw.head[f].kind \notin {"junk", "missing"}

\* C33: a call of record_like with a well-formed notice appends the records
\* of its parseable items, in order, to the list of its message id and
\* leaves every other list as it was; a call with any other raw message
\* leaves all lists as they were; no call changes tokens, locks or calls.
C33_RecordLikeAppends ==
    [][LET raw == rec_raw'
           b == rec_bot'
       IN /\ WellFormed(raw)
             => /\ like_cache'[b][raw.head.message_id.num]
                     = like_cache[b][raw.head.message_id.num] \o GoodRecords(raw)
                /\ \A o \in Bots, m \in Msgs :
                      (o # b \/ m # raw.head.message_id.num)
                      => like_cache'[o][m] = like_cache[o][m]
          /\ ~WellFormed(raw) => like_cache' = like_cache
          /\ UNCHANGED <<self_emoji, locks, pc, result, reactions>>]_vars

\* C33 witness: a notice whose second item does not parse has left the
\* records of its first and third item, in that order
C33_Witness ==
    /\ rec_raw.has_likes /\ Len(rec_raw.likes) = 3
    /\ rec_raw.likes[1].emoji_id = IntValue(2)
    /\ rec_raw.likes[2].emoji_id = Junk
    /\ rec_raw.likes[3].emoji_id = IntValue(1)
    /\ rec_raw.head.message_id = StrValue(1)
    /\ like_cache[rec_bot][1] = <<EmojiLikeRecord(UserId, 2),
                                  EmojiLikeRecord(UserId, 1)>>

(* ------------------------ properties: streamd --------------------------- *)

\* task t returns or raises in this step
ReturnStep(t) == fpc[t] \notin {"ret_exists", "ret_ok"} /\ fpc'[t] \in {"ret_exists", "ret_ok"}

RaiseStep(t) == fpc[t] # "raised" /\ fpc'[t] = "raised"

\* C9: on every failure path of fetch the target path does not exist when
\* the call returns.
C9_NoFileAfterFailure ==
    [][\A t \in Fetches : RaiseStep(t) => ~fs'[fpath[t]].exists]_vars

\* C10: a path handed to a caller of fetch names a file that holds the whole
\* body, also when another fetch of the same path is still writing it.
C10_OnlyCompleteFilesReturned ==
    [][\A t \in Fetches : ReturnStep(t) => FileComplete(fs'[fpath'[t]])]_vars

\* the tasks whose HTTP transfer is writing to path p
Writers(p) == {t \in Fetches : fpc[t] = "writing" /\ fpath[t] = p}

\* C11: simultaneous fetches of one target path share one execution: at most
\* one transfer writes a given path at any time.
C11_SingleFlight ==
    \A p \in Paths : Cardinality(Writers(p)) <= 1

\* C12: a fetch cancelled while its transfer is in flight aborts and leaves no
\* partially written target file.
C12_CancelRemovesPartial ==
    [][\A t \in Fetches :
          (fpc[t] = "writing" /\ fpc'[t] = "cancelled")
          => ~fs'[fpath[t]].exists]_vars

\* task t cannot move on from a policy rejection e except to raise it (or to
\* be cancelled): it never opens the file and makes no further request
RejectedFor(t, e) ==
    ferr[t] = e =>
        \/ fpc'[t] = "cancelled"
        \/ /\ ferr'[t] = e
           /\ attempt'[t] = attempt[t]
           /\ fpc'[t] \in {"unlinking", "unlinked", "raised"}

\* C17: a (status < 400) response whose Content-Length exceeds the ceiling
\* makes fetch fail with SizeLimit before any byte is written: the file is
\* not created by this fetch and no further request is made.
C17_SizeLimitRejects ==
    [][\A t \in Fetches :
          /\ \A cl \in ContentLengths, te \in BOOLEAN :
                (cl > MaxSizeMB /\ Respond(t, TRUE, cl, te))
                => /\ fpc'[t] = "unlinking"
                   /\ ferr'[t] = "SizeLimit"
                   /\ fs' = fs
          /\ RejectedFor(t, "SizeLimit")]_vars

\* C17 witness: a fetch has raised SizeLimitException
C17_Witness ==
    \E t \in Fetches :
        fpc[t] = "raised" /\ ferr[t] = "SizeLimit"

\* C18: Content-Length 0 without chunked transfer encoding makes fetch fail
\* with ZeroSize, without a write and without a retry; Content-Length 0 with
\* chunked transfer encoding is not rejected as ZeroSize.
C18_ZeroSizeRejects ==
    [][\A t \in Fetches :
          /\ Respond(t, TRUE, 0, FALSE)
             => /\ fpc'[t] = "unlinking"
                /\ ferr'[t] = "ZeroSize"
                /\ fs' = fs
          /\ Respond(t, TRUE, 0, TRUE)
             => /\ fpc'[t] = "writing"
                /\ ferr'[t] # "ZeroSize"
          /\ RejectedFor(t, "ZeroSize")]_vars

\* C18 witness: one fetch has raised ZeroSizeException while another is
\* streaming a body (the only accepted responses with a length of 0 are
\* chunked or carry the real length)
C18_Witness ==
    /\ \E t \in Fetches : fpc[t] = "raised" /\ ferr[t] = "ZeroSize"
    /\ \E t \in Fetches : fpc[t] = "writing" /\ fpos[t] > 0

\* C19: a response without a Content-Length header is streamed to the file
\* and rejected neither as ZeroSize nor as SizeLimit, chunked or not.
C19_NoLengthStreams ==
    [][\A t \in Fetches, te \in BOOLEAN :
          Respond(t, TRUE, NoHeader, te)
          => /\ fpc'[t] = "writing"
             /\ ferr'[t] \notin {"ZeroSize", "SizeLimit"}]_vars

Transient(e) == e \in {"ClientError", "TimeoutError"}

NonTransient(e) == e \in {"ZeroSize", "SizeLimit", "OSError"}

C22_ExistingFileReturned ==
    [][\A t \in Fetches :
          /\ (fpc[t] = "idle" /\ fpc'[t] # "idle")
             => IF fs[fpath'[t]].exists
                THEN fpc'[t] = "ret_exists" /\ fs' = fs
                ELSE fpc'[t] = "request"
          /\ fpc[t] = "ret_exists"
             => fpc'[t] = "ret_exists" /\ attempt'[t] = attempt[t]]_vars

\* C22 witness: a second fetch for the path of a fetch that has returned its
\* complete file has returned without a transfer
C22_Witness ==
    \E t1, t2 \in Fetches :
        /\ t1 < t2 /\ fpath[t1] = fpath[t2]
        /\ fpc[t1] = "ret_ok" /\ fpc[t2] = "ret_exists"
        /\ FileComplete(fs[fpath[t2]])

(* --------------------- properties: fetch and merge ---------------------- *)

\* the ffmpeg process of merge m has been started
MuxStarted(m) ==
    \/ av_pc[m] \in {"muxing", "unlinking", "ret_ok"}
    \/ return_code[m] # NoExit

\* C13: when one of the two fetches fails while the other is in flight, the
\* failure reaches the caller with no fetch left in flight, and the other
\* fetch never runs to completion.
C13_SiblingCancelled ==
    [][\A m \in Merges :
          /\ (av_pc[m] = "gathering" /\ av_pc'[m] = "raised")
             => \A l \in Legs : leg'[m][l] # "running"
          /\ \A l \in Legs :
                (av_err[m] = "DownloadException" /\ leg[m][l] = "running")
                => leg'[m][l] # "ok"]_vars

\* C14: the muxer has been started only if both fetches have succeeded; with
\* a failed fetch it is never started.
C14_MuxAfterBothFetches ==
    \A m \in Merges : MuxStarted(m) => \A l \in Legs : leg[m][l] = "ok"

\* C14 witness: the muxer was started after video-then-audio in one merge
\* and after audio-then-video in another
C14_Witness ==
    \E m1, m2 \in Merges :
        /\ MuxStarted(m1) /\ finished[m1] = <<"v", "a">>
        /\ MuxStarted(m2) /\ finished[m2] = <<"a", "v">>

\* C15: once a merge attempt is over (returned or raised after the muxer
\* ended or could not be started), neither input file exists.
C15_InputsDeleted ==
    \A m \in Merges :
        (return_code[m] # NoExit /\ av_pc[m] \in {"ret_ok", "raised"})
        => \A l \in Legs : ~avfile[m][l]

\* C16: after a non-zero exit of the muxer the task has raised the merge
\* failure, and it never returns the output path.
C16_NonZeroExitFails ==
    \A m \in Merges :
        return_code[m] = "nonzero"
        => av_pc[m] = "raised" /\ av_err[m] = "RuntimeError"

\* C16 witness: a merge has raised after a non-zero exit that left an
\* output file behind
C16_Witness ==
    \E m \in Merges :
        return_code[m] = "nonzero" /\ av_pc[m] = "raised" /\ avfile[m]["out"]

\* the task has left streamd()
Returned(t) == fpc[t] \in {"ret_exists", "ret_ok", "raised", "cancelled"}

\* C32: a call sends at most 3 requests; it has slept once per failed attempt
\* that was followed by another (once more while it sleeps before the next,
\* where it may be cancelled),
\* the k-th sleep lasting 1.5 s * k; a call that gave up has not slept after
\* its last attempt; every call that started returns or raises.
C32_BoundedRetry ==
    /\ [](\A t \in Fetches :
            /\ attempt[t] + 1 <= 3
            /\ fpc[t] # "cancelled"
               => Len(slept[t]) = attempt[t] + (IF fpc[t] = "backoff" THEN 1 ELSE 0)
            /\ Len(slept[t]) \in {attempt[t], attempt[t] + 1}
            /\ \A k \in 1..Len(slept[t]) : slept[t][k] = 15 * k
            /\ Len(slept[t]) <= 2)
    /\ \A t \in Fetches : (fpc[t] # "idle") ~> Returned(t)

\* C32 witness: the third request failed as the two before it; the call
\* raised DownloadException after sleeps of 1.5 s and 3.0 s
C32_Witness ==
    \E t \in Fetches :
        /\ fpc[t] = "raised" /\ ferr[t] = "DownloadException"
        /\ attempt[t] = 2
        /\ slept[t] = <<15, 30>>

\* C37: once a call has returned the path of the complete file it wrote, no
\* step of another call on the same path removes the file.
C37_CompletedFileSurvives ==
    [][\A t \in Fetches :
          (fpc[t] = "ret_ok" /\ FileComplete(fs[fpath[t]]))
          => fs'[fpath[t]].exists]_vars

(* ------------------------ properties: info_cache ------------------------ *)

\* the keys written so far, in the order of the writes
SetKeys == Keys(SelectSeq(cache_ops, LAMBDA o : o.op = "set"))
Distinct(q) == \A i, j \in 1..Len(q) : i # j => q[i] # q[j]
KeySet(d) == {d[i].key : i \in 1..Len(d)}

\* C25: the cache never holds more than its capacity N; after N + 1 writes of
\* distinct keys to the empty cache (reads in between or not) it holds
\* exactly the last N of them and not the first.
C25_CapacityAndEviction ==
    /\ Len(info_cache) <= CacheSize
    /\ Distinct(Keys(info_cache))
    /\ (Len(SetKeys) = CacheSize + 1 /\ Distinct(SetKeys))
       => /\ Keys(info_cache) = Tail(SetKeys)
          /\ ~HasKey(info_cache, Head(SetKeys))

\* C25 witness: N + 1 distinct keys have been written, with a read among
\* the operations
C25_Witness ==
    /\ Len(SetKeys) = CacheSize + 1 /\ Distinct(SetKeys)
    /\ Len(cache_ops) > Len(SetKeys)
    /\ Len(info_cache) = CacheSize

\* the position in cache_ops of the write that inserted key k the last time
InsertedAt(k) ==
    LET at == {i \in 1..Len(cache_ops) :
                  /\ cache_ops[i].op = "set"
                  /\ cache_ops[i].key = k
                  /\ ~cache_ops[i].found}
    IN CHOOSE i \in at : \A j \in at : j <= i

\* the step applies the operation o to the cache
OpStep(o) == cache_ops' = Append(cache_ops, o)

\* C26: a read changes nothing in the cache, and the entry a write evicts is
\* the one inserted earliest among those present, however recently it was read.
C26_FifoEviction ==
    [][/\ \A k \in Urls, f \in BOOLEAN :
             OpStep([op |-> "get", key |-> k, found |-> f])
             => info_cache' = info_cache
       /\ \A k \in KeySet(info_cache) \ KeySet(info_cache') :
             \A j \in KeySet(info_cache) : InsertedAt(k) <= InsertedAt(j)]_vars

\* C26 witness: the key read by the last operation but one was evicted by
\* the write that followed
C26_Witness ==
    /\ Len(cache_ops) >= 2
    /\ LET g == cache_ops[Len(cache_ops) - 1]
           w == cache_ops[Len(cache_ops)]
       IN /\ g.op = "get" /\ g.found
          /\ w.op = "set" /\ ~w.found
          /\ ~HasKey(info_cache, g.key)
          /\ Len(info_cache) = CacheSize

\* C39: a write to a key that is present replaces its value and changes
\* neither the keys held nor their order: nothing is evicted and the key
\* keeps the place of its insertion.
C39_OverwriteKeepsPlace ==
    [][\A k \in Urls :
          OpStep([op |-> "set", key |-> k, found |-> TRUE])
          => /\ Keys(info_cache') = Keys(info_cache)
             /\ \A i \in 1..Len(info_cache) :
                   info_cache[i].key # k => info_cache'[i] = info_cache[i]
             /\ HasKey(info_cache', k)]_vars

\* C39 witness: the last write went to the oldest key of the full cache,
\* which is still the oldest
C39_Witness ==
    /\ cache_ops # <<>>
    /\ LET w == cache_ops[Len(cache_ops)]
       IN /\ w.op = "set" /\ w.found
          /\ Len(info_cache) = CacheSize
          /\ info_cache[1].key = w.key

(* ---------------------- properties: yt-dlp downloads -------------------- *)

\* C23: ydl.download is never called for a media whose duration exceeds the
\* ceiling, for video and for audio; a task whose info exceeds the ceiling
\* raises DurationLimit without calling it.
C23_DurationCheckedFirst ==
    \A t \in YtTasks :
        /\ yt_dl[t] => media_dur[yt_url[t]] <= MaxDuration
        /\ (yt_checked[t] /\ yt_info[t] > MaxDuration)
           => yt_pc[t] = "raised" /\ yt_err[t] = "DurationLimit" /\ ~yt_dl[t]

\* task t enters ytdlp_extract_info in this step
ExtractCall(t) == yt_pc[t] = "idle" /\ yt_pc'[t] # "idle" /\ yt_kind'[t] = "video"

\* C38: a call for a url whose entry is in the cache takes the cached value
\* and does not invoke the extractor; a call for a url without entry invokes
\* it; an extraction that fails or returns nothing leaves the cache as it is.
C38_ExtractionMemoized ==
    [][\A t \in YtTasks :
          /\ ExtractCall(t)
             => IF HasKey(info_cache, yt_url'[t])
                THEN /\ yt_pc'[t] # "extracting"
                     /\ yt_info'[t] = GetValue(info_cache, yt_url'[t])
                     /\ info_cache' = info_cache
                ELSE yt_pc'[t] = "extracting"
          /\ (yt_pc[t] = "extracting" /\ yt_err'[t] = "ParseException")
             => info_cache' = info_cache
          /\ (yt_pc[t] = "extracting" /\ yt_pc'[t] # "extracting"
                /\ yt_err'[t] # "ParseException")
             => /\ HasKey(info_cache', yt_url[t])
                /\ GetValue(info_cache', yt_url[t]) = yt_info'[t]]_vars

\* C38 witness: after a failed extraction for a url a second task invokes
\* the extractor for it again, while a third url sits in the cache
C38_Witness ==
    \E t1, t2 \in YtTasks :
        /\ t1 # t2 /\ yt_url[t1] = yt_url[t2]
        /\ yt_pc[t1] = "raised" /\ yt_err[t1] = "ParseException"
        /\ yt_pc[t2] = "extracting"
        /\ ~HasKey(info_cache, yt_url[t1])

(* ------------------------- properties: auto_task ------------------------ *)

Resolved(a) == acc_pc[a] \in {"returned", "raised"}

\* C24: the download behind a task runs at most once however often its
\* result is accessed, what a done task holds never changes, and every
\* access that has ended returned that path or raised that failure.
C24_SingleExecution ==
    /\ [](\A z \in Lazies : lz_runs[z] <= 1)
    /\ [](\A a \in Accesses :
            Resolved(a) => /\ acc_val[a] = lz_result[acc_of[a]]
                           /\ (acc_pc[a] = "returned") = acc_val[a].ok)
    /\ [][\A z \in Lazies :
            lz_task[z] = "done"
            => lz_task'[z] = "done" /\ lz_result'[z] = lz_result[z]]_vars

\* C24 witness: two accesses of one download have raised its failure
C24_Witness ==
    \E a1, a2 \in Accesses :
        /\ a1 # a2 /\ acc_of[a1] = acc_of[a2]
        /\ acc_pc[a1] = "raised" /\ acc_pc[a2] = "raised"
        /\ lz_runs[acc_of[a1]] = 1

(* ----------------------- properties: LinkDebouncer ---------------------- *)

\* the calls before call i for the same pair
Prior(i) == {j \in 1..(i - 1) : hit_log[j].key = hit_log[i].key}
\* the last call before i that recorded a sighting of the pair
Recorded(i) ==
    LET rec == {j \in Prior(i) : ~hit_log[j].res}
    IN CHOOSE j \in rec : \A m \in rec : m <= j

\* C27: the first call for a pair returns false; a second call within the
\* interval returns true; a call made after the interval has elapsed since
\* the recorded sighting returns false.
C27_HitResults ==
    \A i \in 1..Len(hit_log) :
        /\ Prior(i) = {} => ~hit_log[i].res
        /\ \A j \in Prior(i) :
              (Prior(i) = {j} /\ hit_log[i].at - hit_log[j].at < Interval)
              => hit_log[i].res
        /\ (Prior(i) # {} /\ hit_log[i].at - hit_log[Recorded(i)].at > Interval)
           => ~hit_log[i].res

\* C27 witness: three calls for one pair have returned false, true, false
C27_Witness ==
    /\ Len(hit_log) = 3
    /\ hit_log[2].key = hit_log[1].key /\ hit_log[3].key = hit_log[1].key
    /\ ~hit_log[1].res /\ hit_log[2].res /\ ~hit_log[3].res
    /\ hit_log[2].at > hit_log[1].at

\* call j is the call that follows call i for the same pair
NextFor(i, j) ==
    /\ i < j /\ hit_log[j].key = hit_log[i].key
    /\ \A m \in (i + 1)..(j - 1) : hit_log[m].key # hit_log[i].key

\* C28: lastSeen changes only in a call that returns false, which sets it to
\* the time of the call; so of three successive calls for a pair, the first
\* recording a sighting at t, the second within the interval of t and the
\* third after it (t, t + 0.6 I, t + 1.2 I), the second returns true and the
\* third false.
C28_FixedWindow ==
    /\ [][\A k \in DebKeys :
            deb_last'[k] # deb_last[k]
            => /\ deb_last'[k] = now
               /\ hit_log' = Append(hit_log, [key |-> k, at |-> now, res |-> FALSE])]_vars
    /\ [](\A i, j, m \in 1..Len(hit_log) :
            (/\ NextFor(i, j) /\ NextFor(j, m)
             /\ ~hit_log[i].res
             /\ hit_log[j].at - hit_log[i].at < Interval
             /\ hit_log[m].at - hit_log[i].at > Interval)
            => hit_log[j].res /\ ~hit_log[m].res)

\* C28 witness: calls at t, t + 0.6 I and t + 1.2 I for one pair have
\* returned false, true, false, and lastSeen is the time of the third
C28_Witness ==
    \E i, j, m \in 1..Len(hit_log) :
        /\ NextFor(i, j) /\ NextFor(j, m)
        /\ 10 * (hit_log[j].at - hit_log[i].at) = 6 * Interval
        /\ 10 * (hit_log[m].at - hit_log[i].at) = 12 * Interval
        /\ ~hit_log[i].res /\ hit_log[j].res /\ ~hit_log[m].res
        /\ deb_last[hit_log[i].key] = hit_log[m].at

(* ---------------------- properties: keyword dispatch -------------------- *)

\* the pair at place i has its keyword in the text and its pattern matches
PairHits(i) ==
    /\ Occurs(key_pattern_list[i].kw, d_text)
    /\ Occurs(key_pattern_list[i].pat, d_text)

\* C40: the list is in order of decreasing keyword length; the pair selected
\* for a text is the first of the list whose keyword occurs in the text and
\* whose pattern matches, so no pair that hits has a longer keyword; when no
\* pair hits, nothing is selected and the handler returns before parsing.
C40_FirstHitLongestFirst ==
    /\ \A i, j \in DOMAIN key_pattern_list :
          i < j => Len(key_pattern_list[i].kw) >= Len(key_pattern_list[j].kw)
    /\ d_searched # 0
       => /\ d_searched \in DOMAIN key_pattern_list
          /\ PairHits(d_searched)
          /\ \A j \in 1..(d_searched - 1) : ~PairHits(j)
          /\ \A j \in DOMAIN key_pattern_list :
                PairHits(j) => Len(key_pattern_list[j].kw) <= Len(d_keyword)
          /\ d_keyword = key_pattern_list[d_searched].kw
          /\ d_parsing
    /\ d_searched = 0
       => /\ \A j \in DOMAIN key_pattern_list : ~PairHits(j)
          /\ ~d_parsing

\* C40 witness: the shortest keyword was registered first; the first pair
\* of the sorted list has its keyword in the text but its pattern does not
\* match, the second pair is selected, and the shorter third pair hits too
C40_Witness ==
    /\ d_searched = 2
    /\ key_pattern_list = <<[kw |-> <<"b", "a">>, pat |-> <<"b", "a", "a">>],
                            [kw |-> <<"a", "b">>, pat |-> <<"a", "b">>],
                            [kw |-> <<"b">>, pat |-> <<"b">>]>>
    /\ d_text = <<"a", "b", "a">>
    /\ d_parsing

(* ------------------------ properties: file names ------------------------ *)

\* C31: two requests whose urls differ (and have different digests) have
\* different target paths, whether or not the caller passed a name.
C31_PathFollowsUrl ==
    \A i, j \in DOMAIN requests :
        UrlHash(requests[i].url) # UrlHash(requests[j].url)
        => requests[i].path # requests[j].path

(* ------------------------ properties: on_message ------------------------ *)

\* compete() has been called by handler h
Competed(h) == m_pc[h] = "competing" \/ m_win[h] # "none"

\* C29: the debouncer is asked before the arbitration, so a handler whose
\* link was suppressed has posted no reaction; and a handler of an event
\* that is not from a group chat never calls compete.
C29_DebounceBeforeCompete ==
    \A h \in Handlers :
        /\ m_hit[h] = "suppressed" => ~m_posted[h]
        /\ (m_pc[h] # "idle" /\ ~m_in[h].group) => ~Competed(h)

\* C30: a handler whose compete returned false has returned; it has called
\* neither parse (which starts the downloads) nor send.
C30_LoserIsSilent ==
    \A h \in Handlers :
        m_win[h] = "false"
        => m_pc[h] = "done" /\ ~m_parsed[h] /\ ~m_sent[h]

\* C30 witness: one handler lost the arbitration after posting its reaction
\* while another won and sent its result
C30_Witness ==
    \E h1, h2 \in Handlers :
        /\ m_win[h1] = "false" /\ m_posted[h1] /\ m_in[h1].link # NoLink
        /\ m_win[h2] = "true" /\ m_sent[h2]

====
